---- MODULE Spec2Model ----
(***************************************************************************)
(* A model of coord-plane-iteration: the worker pool of                    *)
(* src/src/basic-thread-pool.c and the coordinate plane and its iteration  *)
(* engine of coord-plane-iteration.c (src/unnamed/part_005).               *)
(*                                                                         *)
(* The pool's critical sections are atomic actions: every one of them is   *)
(* bracketed by mtx_lock/mtx_unlock of the single pool mutex and the only  *)
(* blocking call inside is cnd_wait, which releases the mutex.  A thread   *)
(* blocked in cnd_wait is a thread whose position is a "blocked" label; a  *)
(* broadcast moves every such thread to the label where it re-takes the    *)
(* mutex and re-evaluates its loop condition.                              *)
(***************************************************************************)
EXTENDS Integers, Sequences, FiniteSets, TLC

(* ------------------------------ bounds -------------------------------- *)
MaxWorkers == 2
MaxJobs == 3

NULL == 0

Workers == 1..MaxWorkers
Jobs == 1..MaxJobs

VARIABLES
    (* struct basic_thread_pool *)
    stop,           \* atomic_bool stop
    first,          \* head of the todo list (an elem, or NULL)
    last,           \* tail pointer; stale once the list has drained
    elem_next,      \* elem -> elem->next
    num_working,    \* jobs detached and not yet accounted as done
    threads_len,    \* number of workers
    released,       \* resources already destroyed/freed by stop_and_free
    (* threads *)
    wpc,            \* position of each worker in basic_thread_pool_loop
    welem,          \* the elem a worker detached (its local "elem")
    cpc,            \* position of the thread that owns the pool
    (* build and bookkeeping of what happened *)
    debug_build,    \* compiled with -DDEBUG (joinable workers) or not
    requested,      \* the argument of basic_thread_pool_new
    njobs,          \* elems allocated so far; elem ids are 1..njobs
    started,        \* elems in the order workers detached them
    finished,       \* elem -> number of times its function returned
    discarded,      \* elems freed unstarted by stop_and_free
    waited,         \* elems whose add had returned when wait was called
    last_add,       \* the most recent basic_thread_pool_add call
    running_at_stop,\* num_working when the stop flag was set
    uaf,            \* a worker touched a released resource
    (* struct coordinate_plane and what it points to *)
    plane,          \* the scalar fields of struct coordinate_plane
    all_points,     \* plane->all_points: index -> iterxy_s
    scratch,        \* plane->scratch: index -> iterxy_s * (a point index)
    points_not_escaped, \* plane->points_not_escaped: index -> iterxy_s *
    contexts,       \* plane->contexts: index -> iterate context
    ipc,            \* position of the main thread in coordinate_plane_iterate
    frame,          \* the locals of the coordinate_plane_iterate call
    ret,            \* the value the last coordinate_plane_iterate returned
    oob,            \* a context wrote past the end of scratch
    nops,           \* view changes (pan, zoom, ...) made so far
    nsteps,         \* iteration steps asked for so far
    ref,            \* the same plane given the same calls on one thread
    threads_changed,\* num_threads changed since the reset, after a batch
    base,           \* the plane as coordinate_plane_new returned it
    hist,           \* the view operations applied since, in order
    pool_log,       \* the pools the plane made and stopped, in order
    (* struct pixel_buffer and what it points to *)
    buf,            \* the pixel buffer, its palette and its line contexts
    (* the main loop of the program *)
    loop            \* the locals of the frame loop: it_per_frame, ...

poolVars == <<stop, first, last, elem_next, num_working, threads_len, released,
              wpc, welem, cpc, debug_build, requested, njobs, started,
              finished, discarded, waited, last_add, running_at_stop,
              uaf>>

planeVars == <<plane, all_points, scratch, points_not_escaped, contexts, ipc,
               frame, ret, oob, nops, nsteps, ref,
               threads_changed, base, hist, pool_log, buf, loop>>

\* the record of what was done to the plane
ghostVars == <<base, hist, pool_log>>

vars == <<poolVars, planeVars>>

(* ------------------------- pure helpers ------------------------------- *)

\* basic_thread_pool_new: a request of 0 threads is left as 0
ThreadsLenNoFloor(n) == n

\* basic_thread_pool_new: num_threads = num_threads ? num_threads : 1
ThreadsLen(n) == IF n # 0 THEN n ELSE 1

\* add that pushes at the head of the list
EnqueueAtHead(f, l, nx, e) ==
    [first |-> e,
     last |-> IF f = NULL THEN e ELSE l,
     next |-> [nx EXCEPT ![e] = f]]

\* add that tests the (stale) tail instead of the head for emptiness
EnqueueTestsLast(f, l, nx, e) ==
    IF l = NULL
    THEN [first |-> e, last |-> e, next |-> [nx EXCEPT ![e] = NULL]]
    ELSE [first |-> f, last |-> e,
          next |-> [nx EXCEPT ![e] = NULL, ![l] = e]]

\* basic_thread_pool_add, the list update: elem->next = NULL, then link
Enqueue(f, l, nx, e) ==
    IF f = NULL
    THEN [first |-> e, last |-> e, next |-> [nx EXCEPT ![e] = NULL]]
    ELSE [first |-> f, last |-> e,
          next |-> [nx EXCEPT ![e] = NULL, ![l] = e]]

\* the elems reachable from f along next
RECURSIVE Chain(_, _, _)
Chain(f, nx, fuel) ==
    IF f = NULL \/ fuel = 0 THEN <<>>
    ELSE <<f>> \o Chain(nx[f], nx, fuel - 1)

Queue == Chain(first, elem_next, MaxJobs + 1)

\* basic_thread_pool_queue_size(pool): the jobs added and not yet started
basic_thread_pool_queue_size == Len(Queue)

SeqToSet(s) == {s[i] : i \in 1..Len(s)}

\* the worker's inner wait loop: while (!pool->stop && pool->first == NULL)
LoopWaitCond == ~stop /\ first = NULL

\* a wait that only looks at the queue
WaitCondQueueOnly == first # NULL

\* basic_thread_pool_wait: while (num_working > 0 || first != NULL)
WaitCond == (num_working > 0) \/ (first # NULL)

\* a stop_and_free that does not wait for running jobs
StopWaitCondNever == FALSE

\* basic_thread_pool_stop_and_free: while (pool->num_working > 0)
StopWaitCond == num_working > 0

\* cnd_broadcast(pool->todo): every worker blocked in cnd_wait(todo) wakes
BroadcastTodo(pcs) ==
    [w \in Workers |-> IF pcs[w] = "wait_todo" THEN "lock" ELSE pcs[w]]

\* a broadcast that wakes nobody
BroadcastDoneLost(c) == c

\* cnd_broadcast(pool->done): a thread blocked in cnd_wait(done) wakes
BroadcastDone(c) ==
    CASE c = "wait_blocked" -> "wait"
      [] c = "stop_blocked" -> "stop_lock2"
      [] OTHER -> c

(* ------------------------------ Init ---------------------------------- *)

\* no pixel buffer
NoBuf == [alive |-> FALSE]

\* no frame loop is running
NoLoop == [ui |-> "none"]

\* the pool on its own: no plane exists
NoPlane ==
    /\ plane = [alive |-> FALSE]
    /\ all_points = <<>>
    /\ scratch = <<>>
    /\ points_not_escaped = <<>>
    /\ contexts = <<>>
    /\ ipc = "none"
    /\ frame = <<>>
    /\ ret = 0
    /\ oob = FALSE
    /\ nops = 0
    /\ nsteps = 0
    /\ ref = <<>>
    /\ threads_changed = FALSE
    /\ base = <<>>
    /\ hist = <<>>
    /\ pool_log = <<>>
    /\ buf = NoBuf
    /\ loop = NoLoop

\* the pool's variables before basic_thread_pool_new
NoPool ==
    /\ stop = FALSE
    /\ first = NULL
    /\ last = NULL
    /\ elem_next = [e \in Jobs |-> NULL]
    /\ num_working = 0
    /\ threads_len = 0
    /\ released = {}
    /\ wpc = [w \in Workers |-> "none"]
    /\ welem = [w \in Workers |-> NULL]
    /\ cpc = "new"
    /\ debug_build \in BOOLEAN
    /\ requested = 0
    /\ njobs = 0
    /\ started = <<>>
    /\ finished = [e \in Jobs |-> 0]
    /\ discarded = {}
    /\ waited = {}
    /\ last_add = [called |-> FALSE, stop |-> FALSE, ret |-> 0, elem |-> NULL,
                   drained |-> FALSE]
    /\ running_at_stop = 0
    /\ uaf = FALSE

PoolInit == NoPool /\ NoPlane

(* --------------------------- pool: new -------------------------------- *)

\* basic_thread_pool_new(n), every primitive succeeding
PoolNew(n) ==
    /\ cpc = "new"
    /\ requested' = n
    /\ threads_len' = ThreadsLen(n)
    /\ wpc' = [w \in Workers |->
                 IF w <= ThreadsLen(n) THEN "start" ELSE "none"]
    /\ cpc' = "idle"
    /\ UNCHANGED <<stop, first, last, elem_next, num_working, released, welem,
                   debug_build, njobs, started, finished, discarded, waited,
                   last_add, uaf,
                   running_at_stop>>
    /\ UNCHANGED planeVars

(* --------------------------- pool: add -------------------------------- *)

\* the body of basic_thread_pool_add with malloc succeeding
AddElem ==
    LET e == njobs + 1
        q == Enqueue(first, last, elem_next, e)
    IN  /\ njobs < MaxJobs
        /\ njobs' = e
        /\ first' = q.first
        /\ last' = q.last
        /\ elem_next' = q.next
        /\ last_add' = [called |-> TRUE, stop |-> stop, ret |-> 0, elem |-> e,
                        drained |-> (first = NULL /\ last # NULL)]

\* basic_thread_pool_add called by the owner of the pool
ClientAdd ==
    /\ cpc \in {"idle", "waited"}
    /\ AddElem
    /\ wpc' = BroadcastTodo(wpc)
    /\ cpc' = "idle"
    /\ UNCHANGED <<stop, num_working, threads_len, released, welem,
                   debug_build, requested, started, finished, discarded,
                   waited, uaf,
                   running_at_stop>>
    /\ UNCHANGED planeVars

\* basic_thread_pool_add when malloc_or_log returns NULL: return 1
ClientAddNoMem ==
    /\ cpc \in {"idle", "waited"}
    /\ last_add' = [called |-> TRUE, stop |-> stop, ret |-> 1, elem |-> NULL,
                    drained |-> FALSE]
    /\ cpc' = "idle"
    /\ UNCHANGED <<stop, first, last, elem_next, num_working, threads_len,
                   released, wpc, welem, debug_build, requested, njobs,
                   started, finished, discarded, waited, uaf,
                   running_at_stop>>
    /\ UNCHANGED planeVars

\* basic_thread_pool_add called from inside a running job
JobAdd(w) ==
    /\ wpc[w] = "run"
    /\ AddElem
    /\ wpc' = BroadcastTodo(wpc)
    /\ UNCHANGED <<stop, num_working, threads_len, released, welem, cpc,
                   debug_build, requested, started, finished, discarded,
                   waited, uaf,
                   running_at_stop>>
    /\ UNCHANGED planeVars

(* --------------------------- pool: wait ------------------------------- *)

\* basic_thread_pool_wait is called
ClientWait ==
    /\ cpc \in {"idle", "waited"}
    /\ cpc' = "wait"
    /\ waited' = 1..njobs
    /\ UNCHANGED <<stop, first, last, elem_next, num_working, threads_len,
                   released, wpc, welem, debug_build, requested, njobs,
                   started, finished, discarded, last_add, uaf,
                   running_at_stop>>
    /\ UNCHANGED planeVars

\* basic_thread_pool_wait: lock, test the loop condition, block or return
WaitCheck ==
    /\ cpc = "wait"
    /\ cpc' = IF WaitCond THEN "wait_blocked" ELSE "waited"
    /\ UNCHANGED <<stop, first, last, elem_next, num_working, threads_len,
                   released, wpc, welem, debug_build, requested, njobs,
                   started, finished, discarded, waited, last_add, uaf,
                   running_at_stop>>
    /\ UNCHANGED planeVars

(* ----------------------- pool: worker loop ---------------------------- *)

\* basic_thread_pool_loop entry: read ctx->id and ctx->pool
WorkerStart(w) ==
    /\ wpc[w] = "start"
    /\ wpc' = [wpc EXCEPT ![w] = "lock"]
    /\ UNCHANGED <<stop, first, last, elem_next, num_working, threads_len,
                   released, welem, cpc, debug_build, requested, njobs,
                   started, finished, discarded, waited, last_add, uaf,
                   running_at_stop>>
    /\ UNCHANGED planeVars

\* basic_thread_pool_loop: lock, wait loop, stop test, detach the head
WorkerLoop(w) ==
    /\ wpc[w] = "lock"
    /\ IF LoopWaitCond
       THEN /\ wpc' = [wpc EXCEPT ![w] = "wait_todo"]
            /\ UNCHANGED <<first, num_working, welem, cpc, started>>
       ELSE IF stop
       THEN /\ wpc' = [wpc EXCEPT ![w] = "exited"]
            /\ cpc' = BroadcastDone(cpc)
            /\ UNCHANGED <<first, num_working, welem, started>>
       ELSE /\ welem' = [welem EXCEPT ![w] = first]
            /\ first' = elem_next[first]
            /\ num_working' = num_working + 1
            /\ started' = Append(started, first)
            /\ wpc' = [wpc EXCEPT ![w] = "run"]
            /\ UNCHANGED cpc
    /\ UNCHANGED <<stop, last, elem_next, threads_len, released, debug_build,
                   requested, njobs, finished, discarded, waited, last_add,
                   uaf,
                   running_at_stop>>
    /\ UNCHANGED planeVars

\* free(elem); func(arg) returns
WorkerRun(w) ==
    /\ wpc[w] = "run"
    /\ finished' = [finished EXCEPT ![welem[w]] = @ + 1]
    /\ wpc' = [wpc EXCEPT ![w] = "relock"]
    /\ UNCHANGED <<stop, first, last, elem_next, num_working, threads_len,
                   released, welem, cpc, debug_build, requested, njobs,
                   started, discarded, waited, last_add, uaf,
                   running_at_stop>>
    /\ UNCHANGED planeVars

\* lock; --num_working; cnd_broadcast(done); unlock; thrd_yield
WorkerDone(w) ==
    /\ wpc[w] = "relock"
    /\ num_working' = num_working - 1
    /\ cpc' = BroadcastDone(cpc)
    /\ welem' = [welem EXCEPT ![w] = NULL]
    /\ wpc' = [wpc EXCEPT ![w] = "lock"]
    /\ UNCHANGED <<stop, first, last, elem_next, threads_len, released,
                   debug_build, requested, njobs, started, finished,
                   discarded, waited, last_add, uaf,
                   running_at_stop>>
    /\ UNCHANGED planeVars

\* cnd_wait may return without a broadcast
WorkerSpuriousWake(w) ==
    /\ wpc[w] = "wait_todo"
    /\ wpc' = [wpc EXCEPT ![w] = "lock"]
    /\ UNCHANGED <<stop, first, last, elem_next, num_working, threads_len,
                   released, welem, cpc, debug_build, requested, njobs,
                   started, finished, discarded, waited, last_add, uaf,
                   running_at_stop>>
    /\ UNCHANGED planeVars

ClientSpuriousWake ==
    /\ cpc \in {"wait_blocked", "stop_blocked"}
    /\ cpc' = BroadcastDone(cpc)
    /\ UNCHANGED <<stop, first, last, elem_next, num_working, threads_len,
                   released, wpc, welem, debug_build, requested, njobs,
                   started, finished, discarded, waited, last_add, uaf,
                   running_at_stop>>
    /\ UNCHANGED planeVars

\* what a worker at label pc dereferences in its next step
WorkerTouches(pc) ==
    CASE pc = "start" -> {"thread_contexts"}
      [] pc = "lock" -> IF stop THEN {"pool", "mutex", "done"}
                        ELSE {"pool", "mutex", "todo"}
      [] pc = "relock" -> {"pool", "mutex", "done"}
      [] OTHER -> {}

\* a worker step on a resource stop_and_free has already released: the
\* behaviour is undefined; besides going on with the stale contents (the
\* ordinary actions), the worker may fault
WorkerUseAfterFree(w) ==
    /\ WorkerTouches(wpc[w]) \cap released # {}
    /\ uaf' = TRUE
    /\ wpc' = [wpc EXCEPT ![w] = "crashed"]
    /\ UNCHANGED <<stop, first, last, elem_next, num_working, threads_len,
                   released, welem, cpc, debug_build, requested, njobs,
                   started, finished, discarded, waited, last_add,
                   running_at_stop>>
    /\ UNCHANGED planeVars

(* ---------------------- pool: stop_and_free --------------------------- *)

\* lock; stop = true; free every queued elem; broadcast todo; unlock
ClientStop ==
    /\ cpc \in {"idle", "waited"}
    /\ stop' = TRUE
    /\ discarded' = discarded \cup SeqToSet(Queue)
    /\ first' = NULL
    /\ wpc' = BroadcastTodo(wpc)
    /\ running_at_stop' = num_working
    /\ cpc' = "stop_lock2"
    /\ UNCHANGED <<last, elem_next, num_working, threads_len, released, welem,
                   debug_build, requested, njobs, started, finished, waited,
                   last_add, uaf>>
    /\ UNCHANGED planeVars

\* lock; while (num_working > 0) { broadcast todo; cnd_wait(done) }
\* broadcast todo; unlock; thrd_yield
StopWait ==
    /\ cpc = "stop_lock2"
    /\ wpc' = BroadcastTodo(wpc)
    /\ cpc' = IF StopWaitCond THEN "stop_blocked" ELSE "destroy_todo"
    /\ UNCHANGED <<stop, first, last, elem_next, num_working, threads_len,
                   released, welem, debug_build, requested, njobs, started,
                   finished, discarded, waited, last_add, uaf,
                   running_at_stop>>
    /\ UNCHANGED planeVars

\* cnd_destroy(todo); free(todo)
DestroyTodo ==
    /\ cpc = "destroy_todo"
    /\ released' = released \cup {"todo"}
    /\ cpc' = "destroy_done"
    /\ UNCHANGED <<stop, first, last, elem_next, num_working, threads_len,
                   wpc, welem, debug_build, requested, njobs, started,
                   finished, discarded, waited, last_add, uaf,
                   running_at_stop>>
    /\ UNCHANGED planeVars

\* cnd_destroy(done); free(done)
DestroyDone ==
    /\ cpc = "destroy_done"
    /\ released' = released \cup {"done"}
    /\ cpc' = IF debug_build THEN "join" ELSE "free_threads"
    /\ UNCHANGED <<stop, first, last, elem_next, num_working, threads_len,
                   wpc, welem, debug_build, requested, njobs, started,
                   finished, discarded, waited, last_add, uaf,
                   running_at_stop>>
    /\ UNCHANGED planeVars

\* #ifdef DEBUG: thrd_join of every worker
JoinWorkers ==
    /\ cpc = "join"
    /\ \A w \in Workers : wpc[w] \in {"none", "exited", "crashed"}
    /\ cpc' = "free_threads"
    /\ UNCHANGED <<stop, first, last, elem_next, num_working, threads_len,
                   released, wpc, welem, debug_build, requested, njobs,
                   started, finished, discarded, waited, last_add, uaf,
                   running_at_stop>>
    /\ UNCHANGED planeVars

\* free(threads); free(thread_contexts)
FreeThreads ==
    /\ cpc = "free_threads"
    /\ released' = released \cup {"threads", "thread_contexts"}
    /\ cpc' = "destroy_mutex"
    /\ UNCHANGED <<stop, first, last, elem_next, num_working, threads_len,
                   wpc, welem, debug_build, requested, njobs, started,
                   finished, discarded, waited, last_add, uaf,
                   running_at_stop>>
    /\ UNCHANGED planeVars

\* mtx_destroy(mutex); free(mutex)
DestroyMutex ==
    /\ cpc = "destroy_mutex"
    /\ released' = released \cup {"mutex"}
    /\ cpc' = "free_pool"
    /\ UNCHANGED <<stop, first, last, elem_next, num_working, threads_len,
                   wpc, welem, debug_build, requested, njobs, started,
                   finished, discarded, waited, last_add, uaf,
                   running_at_stop>>
    /\ UNCHANGED planeVars

\* free(pool); *pool_ref = NULL
FreePool ==
    /\ cpc = "free_pool"
    /\ released' = released \cup {"pool"}
    /\ cpc' = "freed"
    /\ UNCHANGED <<stop, first, last, elem_next, num_working, threads_len,
                   wpc, welem, debug_build, requested, njobs, started,
                   finished, discarded, waited, last_add, uaf,
                   running_at_stop>>
    /\ UNCHANGED planeVars

(* ------------------------ pool specification -------------------------- *)

PoolNext ==
    \/ \E n \in 0..MaxWorkers : PoolNew(n)
    \/ ClientAdd
    \/ ClientAddNoMem
    \/ ClientWait
    \/ WaitCheck
    \/ ClientSpuriousWake
    \/ ClientStop
    \/ StopWait
    \/ DestroyTodo
    \/ DestroyDone
    \/ JoinWorkers
    \/ FreeThreads
    \/ DestroyMutex
    \/ FreePool
    \/ \E w \in Workers : WorkerStart(w)
    \/ \E w \in Workers : WorkerLoop(w)
    \/ \E w \in Workers : WorkerRun(w)
    \/ \E w \in Workers : WorkerDone(w)
    \/ \E w \in Workers : JobAdd(w)
    \/ \E w \in Workers : WorkerSpuriousWake(w)
    \/ \E w \in Workers : WorkerUseAfterFree(w)

PoolSpec == PoolInit /\ [][PoolNext]_vars

\* Threads are scheduled and every job function returns; the waiter
\* re-takes the mutex once woken.  Spurious wake-ups are not relied upon.
PoolFairSpec ==
    /\ PoolSpec
    /\ \A w \in Workers :
          WF_vars(WorkerStart(w) \/ WorkerLoop(w) \/ WorkerRun(w)
                  \/ WorkerDone(w))
    /\ WF_vars(WaitCheck)

(* ------------------------- pool: claims ------------------------------- *)

\* basic_thread_pool_size
basic_thread_pool_size == threads_len

Occurrences(s, e) == Cardinality({i \in 1..Len(s) : s[i] = e})

\* C1: in a pool that has not been stopped, once wait has returned every
\* job added so far has been detached exactly once and its function has
\* returned exactly once; and in no state has any job been detached or run
\* more than once.
C1_EachJobExactlyOnce ==
    /\ \A e \in Jobs : finished[e] <= 1 /\ Occurrences(started, e) <= 1
    /\ (cpc = "waited" /\ ~stop) =>
          \A e \in 1..njobs :
              finished[e] = 1 /\ Occurrences(started, e) = 1

C1_Witness ==
    cpc = "waited" /\ njobs >= 3 /\ threads_len >= 2 /\ finished[3] = 1

\* C2: wait returns only with the queue empty and num_working = 0, and no
\* job that had been added when wait was called is still inside its
\* function.
C2_WaitReturnsIdle ==
    cpc = "waited" =>
        /\ first = NULL
        /\ num_working = 0
        /\ \A e \in waited :
              /\ finished[e] >= 1
              /\ \A w \in Workers : welem[w] # e

C2_Witness == cpc = "waited" /\ Cardinality(waited) >= 2

\* C3: a call of wait on a pool that is not stopped eventually returns.
C3_WaitEventuallyReturns == (cpc = "wait") ~> (cpc = "waited")

C3_Witness == cpc = "wait_blocked" /\ num_working > 0 /\ first # NULL

\* C4: elems are numbered in the order their add completed, so FIFO is:
\* the i-th elem detached by a worker is elem i.
C4_DetachedInAddOrder == \A i \in 1..Len(started) : started[i] = i

C4_Witness ==
    /\ last_add.drained
    /\ last_add.elem = 3
    /\ Len(started) = 3

\* C5: an add made once the stop flag is set returns an error and leaves
\* nothing on the queue.
C5_AddAfterStopFails ==
    /\ (last_add.called /\ last_add.stop) => last_add.ret # 0
    /\ stop => first = NULL

\* C6: no job discarded by stop_and_free is ever detached or run, and
\* nothing is released while a detached job is unfinished.
C6_DiscardQueuedKeepRunning ==
    /\ \A e \in discarded : Occurrences(started, e) = 0 /\ finished[e] = 0
    /\ released # {} =>
          /\ num_working = 0
          /\ \A i \in 1..Len(started) : finished[started[i]] = 1

C6_Witness ==
    released # {} /\ discarded # {} /\ running_at_stop > 0

\* C7: when anything of the pool is released, every worker has left its
\* loop, and no worker ever touches a released resource.
C7_WorkersGoneBeforeRelease ==
    /\ released # {} =>
          \A w \in Workers : wpc[w] \in {"none", "exited"}
    /\ ~uaf

\* C28: once stop is set no worker detaches another job, and every worker
\* eventually leaves basic_thread_pool_loop by its break: one blocked on
\* todo is woken and exits, one running a job exits after the job has
\* returned and num_working has been decremented.
C28_WorkersLeaveAfterStop ==
    /\ [][stop => started' = started]_vars
    /\ stop ~> (\A w \in Workers : wpc[w] \in {"none", "exited"})

\* C8: the pool runs max(n, 1) workers and size() reports that number in
\* every state after new.
C8_SizeIsMaxOfRequestAndOne ==
    cpc # "new" =>
        /\ basic_thread_pool_size = (IF requested > 1 THEN requested ELSE 1)
        /\ Cardinality({w \in Workers : wpc[w] # "none"})
               = basic_thread_pool_size

C8_Witness == requested = 0 /\ cpc = "waited" /\ njobs >= 2

(* ===================================================================== *)
(* The coordinate plane.                                                  *)
(*                                                                        *)
(* long double is modelled as a binary floating-point format with         *)
(* MantBits significant bits whose finest grid is 2^-FracBits: a value is *)
(* an integer count of 2^-FracBits, and every arithmetic operation rounds *)
(* its exact result to nearest, ties to even, as the hardware does.  On   *)
(* the small integers and binary fractions used below the operations are  *)
(* exact, as they are in the program.                                     *)
(* ===================================================================== *)
MantBits == 8
FracBits == 8

Unit == 2^FracBits

Abs(n) == IF n < 0 THEN -n ELSE n

\* the spacing of representable values around n/d
RECURSIVE Quantum(_, _, _)
Quantum(n, d, q) ==
    IF Abs(n) < d * q * (2^MantBits) THEN q ELSE Quantum(n, d, 2 * q)

RoundHalfEven(n, d) ==
    LET fl == n \div d
        r == n - fl * d
    IN  IF 2 * r < d THEN fl
        ELSE IF 2 * r > d THEN fl + 1
        ELSE IF fl % 2 = 0 THEN fl ELSE fl + 1

\* the representable value nearest to n/d (d > 0)
LdRound(n, d) ==
    LET q == Quantum(n, d, 1)
        m == RoundHalfEven(Abs(n), d * q) * q
    IN  IF n < 0 THEN -m ELSE m

LdFromInt(n) == LdRound(n * Unit, 1)
LdAdd(a, b) == LdRound(a + b, 1)
LdSub(a, b) == LdRound(a - b, 1)
LdMul(a, b) == LdRound(a * b, Unit)
LdDiv(a, b) == IF b < 0 THEN LdRound(-(a * Unit), -b) ELSE LdRound(a * Unit, b)
\* a decimal literal n/d of the source, e.g. 0.25L
LdLit(n, d) == LdRound(n * Unit, d)

\* double has fewer significant bits than long double (53 against 64)
DblMantBits == 5

\* the spacing of the values a double represents around n/d
RECURSIVE DblQuantum(_, _, _)
DblQuantum(n, d, q) ==
    IF Abs(n) < d * q * (2^DblMantBits) THEN q ELSE DblQuantum(n, d, 2 * q)

\* a decimal literal n/d without suffix, e.g. 0.8: the nearest double,
\* which then converts to long double unchanged
DblLit(n, d) ==
    LET q == DblQuantum(n * Unit, d, 1)
    IN  RoundHalfEven(n * Unit, d * q) * q

XY(x, y) == [x |-> x, y |-> y]

\* square_complex
square_complex(in) ==
    LET xx == LdMul(in.x, in.x)
        yx == LdMul(in.y, in.x)
        xy == LdMul(in.x, in.y)
        yy == LdMul(LdMul(in.y, in.y), LdFromInt(-1))
    IN  XY(LdAdd(xx, yy), LdAdd(yx, xy))

\* iterxy_init_zero
iterxy_init_zero(xy, seed) ==
    [seed |-> seed, c |-> xy, z |-> XY(0, 0), escaped |-> 0,
     trapped |-> FALSE]

\* iterxy_init_xy
iterxy_init_xy(xy, seed) ==
    [seed |-> seed, c |-> xy, z |-> xy, escaped |-> 0, trapped |-> FALSE]

\* radius_squared
radius_squared(c) == LdAdd(LdMul(c.x, c.x), LdMul(c.y, c.y))

\* xy_radius_greater_than_2
xy_radius_greater_than_2(xy) ==
    radius_squared(xy) > LdMul(LdFromInt(2), LdFromInt(2))

\* mandelbrot_in_main_cardioid
mandelbrot_in_main_cardioid(c) ==
    LET xm == LdSub(c.x, LdLit(1, 4))
        y2 == LdMul(c.y, c.y)
        q == LdAdd(LdMul(xm, xm), y2)
    IN  LdMul(q, LdAdd(q, xm)) < LdMul(LdLit(1, 4), y2)

\* mandelbrot_in_period2_bulb
mandelbrot_in_period2_bulb(c) ==
    LET x == LdAdd(c.x, LdFromInt(1))
        y == c.y
    IN  LdAdd(LdMul(x, x), LdMul(y, y)) < LdLit(1, 16)

\* a trapped test that leaves out the main cardioid
MandelbrotTrappedBulbOnly(xy) == mandelbrot_in_period2_bulb(xy)

\* mandelbrot_trapped
mandelbrot_trapped(xy) ==
    mandelbrot_in_main_cardioid(xy) \/ mandelbrot_in_period2_bulb(xy)

\* iterxy_init_zero_mandlebrot_trapped
iterxy_init_zero_mandlebrot_trapped(xy, seed) ==
    LET p == iterxy_init_zero(xy, seed)
    IN  IF mandelbrot_trapped(p.c) THEN [p EXCEPT !.trapped = TRUE] ELSE p

\* mandlebrot: Z[n+1] = (Z[n])^2 + Orig
mandlebrot(p) ==
    LET result == square_complex(p.z)
    IN  [p EXCEPT !.z = XY(LdAdd(result.x, p.c.x), LdAdd(result.y, p.c.y))]

\* julia: Z[n+1] = (Z[n])^2 + seed
julia(p) ==
    LET result == square_complex(p.z)
    IN  [p EXCEPT !.z = XY(LdAdd(result.x, p.seed.x),
                           LdAdd(result.y, p.seed.y))]

pfuncs_mandlebrot_idx == 0
pfuncs_julia_idx == pfuncs_mandlebrot_idx + 1
pfuncs_len == 2

\* pfuncs[idx].pfunc_init
pfunc_init(idx, xy, seed) ==
    IF idx = pfuncs_mandlebrot_idx
    THEN iterxy_init_zero_mandlebrot_trapped(xy, seed)
    ELSE iterxy_init_xy(xy, seed)

\* pfuncs[idx].pfunc
pfunc(idx, p) == IF idx = pfuncs_mandlebrot_idx THEN mandlebrot(p) ELSE julia(p)

\* pfuncs[idx].pfunc_escape
pfunc_escape(idx, z) == xy_radius_greater_than_2(z)

(* ------------------------- plane: bounds ------------------------------ *)
\* the largest window, in pixels
MaxWidth == 3
MaxHeight == 2
\* the largest num_threads
MaxThreads == 2
\* the largest steps argument of one coordinate_plane_iterate call, and the
\* steps asked for by all the calls of a run together
MaxSteps == 2
MaxIter == 3
\* the view changes (pan, zoom, switch, recenter, resize) of a run
MaxOps == 1
\* the non-zero halt_after a plane may be created with
HaltAfter == 2
\* the skip_rounds the planes are created with
SkipRounds == 1

\* an indeterminate value: the contents of memory fresh from malloc
Junk == -1

JunkCtx ==
    [steps |-> Junk, offset |-> Junk, step_size |-> Junk,
     local_escaped |-> Junk, local_not_escaped |-> Junk, not_escaped |-> Junk,
     done |-> FALSE, j |-> Junk, seen |-> {}, pc |-> "idle"]

\* the inputs the plane is created with
Centers == {XY(LdLit(-1, 2), 0)}
Resolutions == {LdFromInt(1)}
Seeds == {XY(LdLit(1, 2), 0)}

ArrayLen(a) == Cardinality(DOMAIN a)

(* ------------------------- plane: reset ------------------------------- *)

\* coordinate_plane_x_min
coordinate_plane_x_min(pl) ==
    LdSub(pl.center.x, LdMul(pl.resolution_x, LdFromInt(pl.win_width \div 2)))

\* coordinate_plane_y_min
coordinate_plane_y_min(pl) ==
    LdSub(pl.center.y, LdMul(pl.resolution_y, LdFromInt(pl.win_height \div 2)))

\* coordinate_plane_x_max
coordinate_plane_x_max(pl) ==
    LdAdd(pl.center.x, LdMul(pl.resolution_x, LdFromInt(pl.win_width \div 2)))

\* coordinate_plane_y_max
coordinate_plane_y_max(pl) ==
    LdAdd(pl.center.y, LdMul(pl.resolution_y, LdFromInt(pl.win_height \div 2)))

\* coordinate_plane_reset, the location of pixel (px, py) on the plane
PixelXY(pl, px, py) ==
    LET y0 == LdSub(coordinate_plane_y_max(pl),
                    LdMul(LdFromInt(py), pl.resolution_y))
        x0 == LdAdd(coordinate_plane_x_min(pl),
                    LdMul(LdFromInt(px), pl.resolution_x))
    IN  XY(IF Abs(x0) < LdDiv(pl.resolution_x, LdFromInt(2)) THEN 0 ELSE x0,
           IF Abs(y0) < LdDiv(pl.resolution_y, LdFromInt(2)) THEN 0 ELSE y0)

\* the indices below n, in order, of the points that are not trapped
RECURSIVE NotTrapped(_, _, _)
NotTrapped(pts, i, n) ==
    IF i >= n THEN <<>>
    ELSE (IF pts[i].trapped THEN <<>> ELSE <<i>>) \o NotTrapped(pts, i + 1, n)

\* a long double that is not a number: no comparison holds of it
LdNaN == -(2^30)

\* a test that lets a resolution of 0 through
LdNotNegative(r) == r # LdNaN /\ r >= 0

\* coordinate_plane_reset's test of a resolution, resolution > 0.0
LdPositive(r) == r # LdNaN /\ r > 0

\* coordinate_plane_reset: a state [plane, all_points, scratch,
\* points_not_escaped]; die() leaves the process dead
coordinate_plane_reset(st, w, h, ctr, rx, ry, idx, sd) ==
    LET p1 == [st.plane EXCEPT !.win_width = w, !.win_height = h,
                               !.center = ctr, !.resolution_x = rx,
                               !.resolution_y = ry]
    IN  IF ~LdPositive(rx) \/ ~LdPositive(ry)
        THEN [st EXCEPT !.plane = [p1 EXCEPT !.alive = FALSE]]
        ELSE
        LET needed == w * h
            fresh == ArrayLen(st.all_points) < needed
            len == IF fresh THEN needed ELSE ArrayLen(st.all_points)
            pts == [i \in 0..(needed - 1) |->
                       pfunc_init(idx, PixelXY(p1, i % w, i \div w), sd)]
            live == NotTrapped(pts, 0, needed)
            old_pne == IF fresh THEN [i \in 0..(len - 1) |-> Junk]
                       ELSE st.points_not_escaped
        IN  [plane |-> [p1 EXCEPT !.iteration_count = 0, !.escaped = 0,
                                  !.trapped = needed - Len(live),
                                  !.not_escaped = Len(live),
                                  !.pfuncs_idx = idx, !.seed = sd,
                                  !.unchanged = 0],
             all_points |-> [i \in 0..(len - 1) |->
                                IF i < needed THEN pts[i]
                                ELSE st.all_points[i]],
             scratch |-> IF fresh THEN [i \in 0..(len - 1) |-> Junk]
                         ELSE st.scratch,
             points_not_escaped |->
                 [i \in 0..(len - 1) |->
                     IF i < Len(live) THEN live[i + 1] ELSE old_pne[i]]]

\* coordinate_plane_new, up to the call of reset
NewPlane(halt_after, skip_rounds, num_threads) ==
    [alive |-> TRUE, win_width |-> 0, win_height |-> 0, center |-> XY(0, 0),
     resolution_x |-> 0, resolution_y |-> 0, pfuncs_idx |-> 0,
     seed |-> XY(0, 0), halt_after |-> halt_after,
     skip_rounds |-> skip_rounds, num_threads |-> num_threads,
     contexts_len |-> IF num_threads # 0 THEN num_threads ELSE 1,
     iteration_count |-> 0, escaped |-> 0, trapped |-> 0, not_escaped |-> 0,
     unchanged |-> 0, tpool |-> NULL]

\* coordinate_plane_new
coordinate_plane_new(w, h, ctr, rx, ry, idx, sd, halt_after, skip_rounds, num_threads) ==
    coordinate_plane_reset(
        [plane |-> NewPlane(halt_after, skip_rounds, num_threads),
         all_points |-> <<>>,
         scratch |-> <<>>, points_not_escaped |-> <<>>],
        w, h, ctr, rx, ry, idx, sd)

(* ------------------------ plane: iterate ------------------------------ *)

\* coordinate_plane_iterate_context_init (seen: the live-list indices the
\* job has processed, kept for the record)
ContextInit(steps, offset, step_size, scratch_len) ==
    [steps |-> steps, offset |-> offset, step_size |-> step_size,
     local_escaped |-> Junk, local_not_escaped |-> Junk,
     not_escaped |-> offset * (scratch_len \div step_size),
     done |-> FALSE, j |-> Junk, seen |-> {}, pc |-> "queued"]

\* coordinate_plane_iterate_with_context, entry: zero the local counters
ContextStart(ctx) ==
    [ctx EXCEPT !.local_escaped = 0, !.local_not_escaped = 0,
                !.j = ctx.offset, !.seen = {}, !.pc = "running"]

\* a loop body that numbers the iterations from the start of the call
InnerStepOfThisCall(idx, p, i, iteration_count) ==
    IF pfunc_escape(idx, p.z)
    THEN [p EXCEPT !.escaped = i + 1]
    ELSE pfunc(idx, p)

\* a loop body that numbers the iterations from 0
InnerStepZeroBased(idx, p, i, iteration_count) ==
    IF pfunc_escape(idx, p.z)
    THEN [p EXCEPT !.escaped = iteration_count + i]
    ELSE pfunc(idx, p)

\* the body of for (i = 0; i < steps && !p->escaped; ++i): escape test,
\* or one step of the point function
InnerStep(idx, p, i, iteration_count) ==
    IF pfunc_escape(idx, p.z)
    THEN [p EXCEPT !.escaped = iteration_count + i + 1]
    ELSE pfunc(idx, p)

\* for (i = 0; i < steps && !p->escaped; ++i) { ... }
RECURSIVE InnerLoop(_, _, _, _, _)
InnerLoop(idx, p, i, steps, iteration_count) ==
    IF i < steps /\ p.escaped = 0
    THEN CHOOSE r \in {InnerLoop(idx, q, i + 1, steps, iteration_count) :
                           q \in {InnerStep(idx, p, i, iteration_count)}} :
             TRUE
    ELSE p

\* a for-j body that counts an escaped point as escaped and as a survivor
ContextPointDoubleCount(pl, h, ctx) ==
    LET pi == h.pne[ctx.j]
        p == InnerLoop(pl.pfuncs_idx, h.pts[pi], 0, ctx.steps,
                       pl.iteration_count)
        slot == ctx.not_escaped + ctx.local_not_escaped
    IN  [pts |-> [h.pts EXCEPT ![pi] = p],
         scratch |-> IF slot < ArrayLen(h.scratch)
                     THEN [h.scratch EXCEPT ![slot] = pi] ELSE h.scratch,
         pne |-> h.pne, oob |-> h.oob,
         ctx |-> [ctx EXCEPT !.local_escaped =
                                 IF p.escaped # 0 THEN @ + 1 ELSE @,
                             !.local_not_escaped = @ + 1,
                             !.j = @ + ctx.step_size,
                             !.seen = @ \cup {ctx.j}]]

\* an inner loop that goes on after the point has escaped
RECURSIVE InnerLoopNoStop(_, _, _, _, _)
InnerLoopNoStop(idx, p, i, steps, iteration_count) ==
    IF i < steps
    THEN CHOOSE r \in {InnerLoopNoStop(idx, q, i + 1, steps,
                                         iteration_count) :
                           q \in {InnerStep(idx, p, i, iteration_count)}} :
             TRUE
    ELSE p

\* a for-j body that neither stops at an escaped point nor drops it from
\* the live list
ContextPointRestep(pl, h, ctx) ==
    LET pi == h.pne[ctx.j]
        p == InnerLoopNoStop(pl.pfuncs_idx, h.pts[pi], 0, ctx.steps,
                             pl.iteration_count)
        slot == ctx.not_escaped + ctx.local_not_escaped
    IN  [pts |-> [h.pts EXCEPT ![pi] = p],
         scratch |-> IF slot < ArrayLen(h.scratch)
                     THEN [h.scratch EXCEPT ![slot] = pi] ELSE h.scratch,
         pne |-> h.pne, oob |-> h.oob,
         ctx |-> [ctx EXCEPT !.local_not_escaped = @ + 1,
                             !.j = @ + ctx.step_size,
                             !.seen = @ \cup {ctx.j}]]

\* coordinate_plane_iterate_with_context, one pass of the for-j body on the
\* heap h = [pts, scratch, pne, oob]
ContextPoint(pl, h, ctx) ==
    LET pi == h.pne[ctx.j]
        p == InnerLoop(pl.pfuncs_idx, h.pts[pi], 0, ctx.steps,
                       pl.iteration_count)
        slot == ctx.not_escaped + ctx.local_not_escaped
    IN  IF p.escaped # 0
        THEN [pts |-> [h.pts EXCEPT ![pi] = p], scratch |-> h.scratch,
              pne |-> h.pne, oob |-> h.oob,
              ctx |-> [ctx EXCEPT !.local_escaped = @ + 1,
                                  !.j = @ + ctx.step_size,
                                  !.seen = @ \cup {ctx.j}]]
        ELSE [pts |-> [h.pts EXCEPT ![pi] = p],
              scratch |-> IF slot < ArrayLen(h.scratch)
                          THEN [h.scratch EXCEPT ![slot] = pi]
                          ELSE h.scratch,
              pne |-> h.pne,
              oob |-> (h.oob \/ slot >= ArrayLen(h.scratch)),
              ctx |-> [ctx EXCEPT !.local_not_escaped = @ + 1,
                                  !.j = @ + ctx.step_size,
                                  !.seen = @ \cup {ctx.j}]]

\* coordinate_plane_iterate_with_context run from its current j to the end
RECURSIVE ContextRun(_, _, _)
ContextRun(pl, h, ctx) ==
    IF ctx.j < pl.not_escaped
    THEN CHOOSE r \in {ContextRun(pl, n, n.ctx) :
                           n \in {ContextPoint(pl, h, ctx)}} : TRUE
    ELSE [pts |-> h.pts, scratch |-> h.scratch, pne |-> h.pne, oob |-> h.oob,
          ctx |-> [ctx EXCEPT !.done = TRUE, !.pc = "finished"]]

\* an update that leaves the context's escaped count out
UpdateFromContextNoEscaped(m, scr, ctx) ==
    LET start == m.plane.not_escaped
        n == ctx.local_not_escaped
    IN  [plane |-> [m.plane EXCEPT !.not_escaped = @ + n],
         pne |-> [i \in DOMAIN m.pne |->
                     IF start <= i /\ i < start + n
                     THEN scr[ctx.not_escaped + (i - start)]
                     ELSE m.pne[i]]]

\* coordinate_plane_update_from_iterate_context on m = [plane, pne]
UpdateFromContext(m, scr, ctx) ==
    LET start == m.plane.not_escaped
        n == ctx.local_not_escaped
    IN  [plane |-> [m.plane EXCEPT !.escaped = @ + ctx.local_escaped,
                                   !.not_escaped = @ + n],
         pne |-> [i \in DOMAIN m.pne |->
                     IF start <= i /\ i < start + n
                     THEN scr[ctx.not_escaped + (i - start)]
                     ELSE m.pne[i]]]

\* plane->not_escaped = 0; then update from contexts i, i+1, .., n-1
RECURSIVE MergeFrom(_, _, _, _, _)
MergeFrom(m, scr, ctxs, i, n) ==
    IF i >= n THEN m
    ELSE MergeFrom(UpdateFromContext(m, scr, ctxs[i]), scr, ctxs, i + 1, n)

\* an iterate that takes the steps it is asked for
ClampStepsNone(pl, steps) == steps

\* coordinate_plane_iterate: clamp steps to what halt_after leaves
ClampSteps(pl, steps) ==
    IF pl.halt_after # 0
    THEN LET remaining == IF pl.iteration_count < pl.halt_after
                          THEN pl.halt_after - pl.iteration_count ELSE 0
         IN  IF steps > remaining THEN remaining ELSE steps
    ELSE steps

\* a tail that adds the steps to unchanged whatever the batch did
IterateTailAlwaysAdds(pl, fr) ==
    [pl EXCEPT !.iteration_count = @ + fr.steps,
               !.unchanged = @ + fr.steps]

\* coordinate_plane_iterate after the batch: counters and the return value
IterateTail(pl, fr) ==
    [pl EXCEPT !.iteration_count = @ + fr.steps,
               !.unchanged = IF fr.previous_not_escaped # pl.not_escaped
                             THEN 0 ELSE @ + fr.steps]

\* the state st = [plane, all_points, scratch, points_not_escaped] of a
\* plane whose num_threads is 1
OneThread(st) == [st EXCEPT !.plane.num_threads = 1]

\* coordinate_plane_iterate_single_threaded after the one context has run:
\* plane->not_escaped = 0, the update from the context, then the tail of
\* coordinate_plane_iterate
SingleThreadedMerge(st, fr, run) ==
    LET m == UpdateFromContext(
                 [plane |-> [st.plane EXCEPT !.not_escaped = 0],
                  pne |-> run.pne],
                 run.scratch, run.ctx)
    IN  [plane |-> IterateTail(m.plane, fr),
         all_points |-> run.pts, scratch |-> run.scratch,
         points_not_escaped |-> m.pne]

\* coordinate_plane_iterate(plane, steps) on a plane with num_threads < 2:
\* clamp, coordinate_plane_iterate_single_threaded, the tail
SingleThreadedIterate(st, steps) ==
    LET fr == [steps |-> ClampSteps(st.plane, steps),
               old_escaped |-> st.plane.escaped,
               previous_not_escaped |-> st.plane.not_escaped]
    IN  IF fr.steps # 0 /\ st.plane.not_escaped # 0
        THEN CHOOSE r \in
                 {SingleThreadedMerge(st, fr, run) : run \in
                      {ContextRun(st.plane,
                           [pts |-> st.all_points, scratch |-> st.scratch,
                            pne |-> st.points_not_escaped, oob |-> FALSE],
                           ContextStart(ContextInit(fr.steps, 0, 1,
                                                    ArrayLen(st.scratch))))}} :
                 TRUE
        ELSE st

(* ------------------------ plane: actions ------------------------------ *)

NoFrame == [steps |-> 0, old_escaped |-> 0, previous_not_escaped |-> 0]

Cur ==
    [plane |-> plane, all_points |-> all_points, scratch |-> scratch,
     points_not_escaped |-> points_not_escaped]

Heap == [pts |-> all_points, scratch |-> scratch, pne |-> points_not_escaped,
         oob |-> oob]

PlaneInit ==
    /\ NoPool
    /\ debug_build = FALSE
    /\ \E w \in 1..MaxWidth, h \in 1..MaxHeight, ctr \in Centers,
       r \in Resolutions, idx \in 0..(pfuncs_len - 1), sd \in Seeds,
       ha \in {0, HaltAfter}, nt \in {0, MaxThreads} :
        \E st \in {coordinate_plane_new(w, h, ctr, r, r, idx, sd, ha,
                                        SkipRounds, nt)} :
            /\ plane = st.plane
            /\ all_points = st.all_points
            /\ scratch = st.scratch
            /\ points_not_escaped = st.points_not_escaped
            /\ contexts = [i \in 0..(st.plane.contexts_len - 1) |-> JunkCtx]
            /\ ipc = "idle"
            /\ frame = NoFrame
            /\ ret = 0
            /\ oob = FALSE
            /\ nops = 0
            /\ nsteps = 0
            /\ ref = OneThread(st)
            /\ threads_changed = FALSE
            /\ base = <<>>
            /\ hist = <<>>
            /\ pool_log = <<>>
            /\ buf = NoBuf
            /\ loop = NoLoop

\* the frame of a coordinate_plane_iterate(plane, steps) call
IterateFrame(steps) ==
    [steps |-> ClampSteps(plane, steps), old_escaped |-> plane.escaped,
     previous_not_escaped |-> plane.not_escaped]

CanIterate(steps) ==
    /\ plane.alive
    /\ ipc = "idle"
    /\ nsteps + steps <= MaxIter

\* a test for work that looks at steps only
HasWorkStepsOnly(fr) == fr.steps # 0

\* coordinate_plane_iterate: if (steps && plane->not_escaped)
HasWork(fr) == fr.steps # 0 /\ plane.not_escaped # 0

\* coordinate_plane_iterate when steps is 0 or nothing is live
IterateNoWork(steps) ==
    /\ CanIterate(steps)
    /\ ~HasWork(IterateFrame(steps))
    /\ ret' = plane.escaped - IterateFrame(steps).old_escaped
    /\ nsteps' = nsteps + steps
    /\ ref' = SingleThreadedIterate(ref, steps)
    /\ UNCHANGED <<plane, all_points, scratch, points_not_escaped, contexts,
                   ipc, frame, oob, nops, threads_changed>>
    /\ UNCHANGED poolVars
    /\ UNCHANGED <<ghostVars, buf, loop>>

\* coordinate_plane_iterate with num_threads < 2 (or built SKIP_THREADS):
\* coordinate_plane_iterate_single_threaded, all on the calling thread
IterateSingle(steps) ==
    /\ CanIterate(steps)
    /\ HasWork(IterateFrame(steps))
    /\ plane.num_threads < 2
    /\ \E fr \in {IterateFrame(steps)} :
       \E run \in {ContextRun(plane, Heap, ContextStart(
                       ContextInit(fr.steps, 0, 1, ArrayLen(scratch))))} :
       \E m \in {UpdateFromContext(
                     [plane |-> [plane EXCEPT !.not_escaped = 0],
                      pne |-> run.pne],
                     run.scratch, run.ctx)} :
       \E pl \in {IterateTail(m.plane, fr)} :
           /\ plane' = pl
           /\ all_points' = run.pts
           /\ scratch' = run.scratch
           /\ points_not_escaped' = m.pne
           /\ oob' = run.oob
           /\ contexts' = [contexts EXCEPT
                              ![0] = [run.ctx EXCEPT !.pc = "idle"]]
           /\ ret' = pl.escaped - fr.old_escaped
    /\ nsteps' = nsteps + steps
    /\ ref' = SingleThreadedIterate(ref, steps)
    /\ UNCHANGED <<ipc, frame, nops, threads_changed>>
    /\ UNCHANGED poolVars
    /\ UNCHANGED <<ghostVars, buf, loop>>

\* the pool's variables that a batch leaves alone
poolRest == <<stop, threads_len, released, wpc, welem, cpc, debug_build,
              requested, njobs, started, finished, discarded, waited,
              last_add, running_at_stop, uaf>>

\* for (i = 0; i < num_threads; ++i) basic_thread_pool_add(tpool, func,
\* contexts + i): the todo list q = [first, last, next] after the adds of
\* contexts i..n-1; the elem of context i is i + 1
RECURSIVE AddContexts(_, _, _)
AddContexts(q, i, n) ==
    IF i >= n THEN q
    ELSE AddContexts(Enqueue(q.first, q.last, q.next, i + 1), i + 1, n)

\* a batch that always makes a new pool of n workers
PoolSizeAlwaysNew(tpool, n) == ThreadsLen(n)

\* coordinate_plane_iterate_multi_threaded, if (pool == NULL ||
\* basic_thread_pool_size(pool) < num_threads): the size of plane->tpool
\* for a batch of n threads
PoolSizeFor(tpool, n) ==
    IF tpool = NULL \/ tpool < n THEN ThreadsLen(n) ELSE tpool

\* coordinate_plane_iterate_multi_threaded, if (pool == NULL ||
\* basic_thread_pool_size(pool) < num_threads): the pools stopped and made
\* for a batch of n threads when plane->tpool is tpool
PoolReplaced(tpool, n) ==
    IF tpool = NULL \/ tpool < n
    THEN (IF tpool # NULL THEN <<[op |-> "stop", size |-> tpool]>> ELSE <<>>)
         \o <<[op |-> "new", size |-> ThreadsLen(n)]>>
    ELSE <<>>

\* coordinate_plane_iterate_multi_threaded up to basic_thread_pool_wait:
\* replace the pool if it is missing or too small, initialise and add one
\* context per thread
IterateDispatch(steps) ==
    LET fr == IterateFrame(steps)
        n == plane.num_threads
    IN  /\ CanIterate(steps)
        /\ HasWork(fr)
        /\ n >= 2
        /\ plane' = [plane EXCEPT !.tpool = PoolSizeFor(@, n)]
        /\ contexts' = [i \in DOMAIN contexts |->
                           IF i < n
                           THEN ContextInit(fr.steps, i, n, ArrayLen(scratch))
                           ELSE contexts[i]]
        /\ frame' = fr
        /\ ipc' = "batch"
        /\ nsteps' = nsteps + steps
        /\ ref' = SingleThreadedIterate(ref, steps)
        /\ \E q \in {AddContexts([first |-> first, last |-> last,
                                   next |-> elem_next], 0, n)} :
               /\ first' = q.first
               /\ last' = q.last
               /\ elem_next' = q.next
        /\ pool_log' = pool_log \o PoolReplaced(plane.tpool, n)
        /\ UNCHANGED <<all_points, scratch, points_not_escaped, ret, oob,
                       nops, threads_changed, base, hist, buf, loop>>
    /\ UNCHANGED <<num_working, poolRest>>

\* basic_thread_pool_loop: a pool worker detaches the head of the todo
\* list, the elem of context t, and counts itself as working
ContextJobStart(t) ==
    /\ ipc \in {"batch", "merge"}
    /\ t \in DOMAIN contexts
    /\ contexts[t].pc = "queued"
    /\ first = t + 1
    /\ first' = elem_next[first]
    /\ num_working' = num_working + 1
    /\ contexts' = [contexts EXCEPT ![t].pc = "running"]
    /\ UNCHANGED <<plane, all_points, scratch, points_not_escaped, ipc,
                   frame, ret, oob, nops, nsteps, ref, threads_changed>>
    /\ UNCHANGED <<last, elem_next, poolRest>>
    /\ UNCHANGED <<ghostVars, buf, loop>>

\* the worker runs the job of context t,
\* coordinate_plane_iterate_inner -> coordinate_plane_iterate_with_context,
\* and counts itself as no longer working; the jobs of one batch finish in
\* any order, and where two of them store to the same scratch slot or
\* step the same point the later one wins
ContextJob(t) ==
    /\ ipc \in {"batch", "merge"}
    /\ t \in DOMAIN contexts
    /\ contexts[t].pc = "running"
    /\ \E n \in {ContextRun(plane, Heap, ContextStart(contexts[t]))} :
           /\ all_points' = n.pts
           /\ scratch' = n.scratch
           /\ oob' = n.oob
           /\ contexts' = [contexts EXCEPT ![t] = n.ctx]
    /\ num_working' = num_working - 1
    /\ UNCHANGED <<plane, points_not_escaped, ipc, frame, ret, nops,
                   nsteps, ref, threads_changed>>
    /\ UNCHANGED <<first, last, elem_next, poolRest>>
    /\ UNCHANGED <<ghostVars, buf, loop>>

\* basic_thread_pool_wait(plane->tpool) returns, then
\* plane->not_escaped = 0
IterateWaited ==
    /\ ipc = "batch"
    /\ ~WaitCond
    /\ plane' = [plane EXCEPT !.not_escaped = 0]
    /\ ipc' = "merge"
    /\ UNCHANGED <<all_points, scratch, points_not_escaped, contexts, frame,
                   ret, oob, nops, nsteps, ref, threads_changed>>
    /\ UNCHANGED poolVars
    /\ UNCHANGED <<ghostVars, buf, loop>>

\* for each context in order: while (!done) thrd_yield(), then
\* coordinate_plane_update_from_iterate_context; then the tail of
\* coordinate_plane_iterate
IterateMerge ==
    /\ ipc = "merge"
    /\ \A t \in 0..(plane.num_threads - 1) : contexts[t].done
    /\ \E m \in {MergeFrom([plane |-> plane,
                            pne |-> points_not_escaped],
                           scratch, contexts, 0, plane.num_threads)} :
       \E pl \in {IterateTail(m.plane, frame)} :
           /\ plane' = pl
           /\ points_not_escaped' = m.pne
           /\ ret' = pl.escaped - frame.old_escaped
    /\ contexts' = [i \in DOMAIN contexts |->
                       [contexts[i] EXCEPT !.pc = "idle"]]
    /\ ipc' = "idle"
    /\ frame' = NoFrame
    /\ UNCHANGED <<all_points, scratch, oob, nops, nsteps, ref,
                   threads_changed>>
    /\ UNCHANGED poolVars
    /\ UNCHANGED <<ghostVars, buf, loop>>

\* threads_changed once num_threads has become n
ThreadsChanged(n) ==
    threads_changed \/ (plane.iteration_count > 0 /\ n # plane.num_threads)

\* a threads_more that counts the thread and leaves the contexts as they
\* are
ThreadsMoreSameContexts(max) ==
    /\ plane.alive /\ ipc = "idle"
    /\ plane.num_threads < max
    /\ plane' = [plane EXCEPT !.num_threads = @ + 1]
    /\ threads_changed' = ThreadsChanged(plane'.num_threads)
    /\ UNCHANGED <<all_points, scratch, points_not_escaped, contexts, ipc,
                   frame, ret, oob, nops, nsteps, ref>>
    /\ UNCHANGED poolVars
    /\ UNCHANGED <<ghostVars, buf, loop>>

\* coordinate_plane_threads_more, while num_threads is below max
ThreadsMoreUpTo(max) ==
    /\ plane.alive /\ ipc = "idle"
    /\ plane.num_threads < max
    /\ LET n == plane.num_threads + 1
       IN  IF n > plane.contexts_len
           THEN /\ plane' = [plane EXCEPT !.num_threads = n,
                                          !.contexts_len = n]
                /\ contexts' = [i \in 0..(n - 1) |-> JunkCtx]
           ELSE /\ plane' = [plane EXCEPT !.num_threads = n]
                /\ UNCHANGED contexts
    /\ UNCHANGED <<all_points, scratch, points_not_escaped, ipc, frame, ret,
                   oob, nops, nsteps, ref>>
    /\ threads_changed' = ThreadsChanged(plane'.num_threads)
    /\ UNCHANGED poolVars
    /\ UNCHANGED <<ghostVars, buf, loop>>

ThreadsMore == ThreadsMoreUpTo(MaxThreads)

\* coordinate_plane_threads_less
ThreadsLess ==
    /\ plane.alive /\ ipc = "idle"
    /\ plane' = [plane EXCEPT !.num_threads = IF @ > 1 THEN @ - 1 ELSE @]
    /\ UNCHANGED <<all_points, scratch, points_not_escaped, contexts, ipc,
                   frame, ret, oob, nops, nsteps, ref>>
    /\ threads_changed' = ThreadsChanged(plane'.num_threads)
    /\ UNCHANGED poolVars
    /\ UNCHANGED <<ghostVars, buf, loop>>

(* ----------------------- plane: view changes -------------------------- *)

\* a reset that leaves the points as they are
ViewResetKeepsPoints(st) ==
    /\ plane.alive /\ ipc = "idle"
    /\ \E s \in {st} :
           /\ plane' = s.plane
           /\ scratch' = s.scratch
           /\ points_not_escaped' = s.points_not_escaped
           /\ ref' = OneThread(s)
           /\ threads_changed' = FALSE
    /\ nops' = nops + 1
    /\ UNCHANGED <<all_points, contexts, ipc, frame, ret, oob, nsteps,
                   pool_log, buf, loop>>
    /\ UNCHANGED poolVars

\* every view change ends in coordinate_plane_reset: st is the state the
\* reset leaves
ViewReset(st) ==
    /\ plane.alive /\ ipc = "idle"
    /\ \E s \in {st} :
           /\ plane' = s.plane
           /\ all_points' = s.all_points
           /\ scratch' = s.scratch
           /\ points_not_escaped' = s.points_not_escaped
           /\ ref' = OneThread(s)
           /\ threads_changed' = FALSE
    /\ nops' = nops + 1
    /\ UNCHANGED <<contexts, ipc, frame, ret, oob, nsteps, pool_log,
                   buf, loop>>
    /\ UNCHANGED poolVars

\* an entry of hist: the operation, and the pixel it was given if any
Did(op) == [op |-> op, x |-> 0, y |-> 0]

\* a view change of a run with at most MaxOps of them
ViewChange(st) ==
    /\ nops < MaxOps
    /\ ViewReset(st)
    /\ UNCHANGED <<base, hist>>

\* a switch that swaps centre and seed on the way into Julia only
NextFunctionSwapsOnEntryOnly(st) ==
    LET old_idx == st.plane.pfuncs_idx
        new_idx == IF 1 + old_idx >= pfuncs_len THEN 0 ELSE 1 + old_idx
        swap == new_idx = pfuncs_julia_idx
    IN  coordinate_plane_reset(st, st.plane.win_width, st.plane.win_height,
            IF swap THEN st.plane.seed ELSE st.plane.center,
            st.plane.resolution_x, st.plane.resolution_y, new_idx,
            IF swap THEN st.plane.center ELSE st.plane.seed)

\* coordinate_plane_next_function
coordinate_plane_next_function(st) ==
    LET old_idx == st.plane.pfuncs_idx
        new_idx == IF 1 + old_idx >= pfuncs_len THEN 0 ELSE 1 + old_idx
        swap == new_idx = pfuncs_julia_idx \/ old_idx = pfuncs_julia_idx
    IN  coordinate_plane_reset(st, st.plane.win_width, st.plane.win_height,
            IF swap THEN st.plane.seed ELSE st.plane.center,
            st.plane.resolution_x, st.plane.resolution_y, new_idx,
            IF swap THEN st.plane.center ELSE st.plane.seed)

\* coordinate_plane_zoom_in (ratio 0.8) and coordinate_plane_zoom_out (1.25)
coordinate_plane_zoom(st, ratio) ==
    coordinate_plane_reset(st, st.plane.win_width, st.plane.win_height,
        st.plane.center, LdMul(st.plane.resolution_x, ratio),
        LdMul(st.plane.resolution_y, ratio), st.plane.pfuncs_idx,
        st.plane.seed)

\* coordinate_plane_pan_left (dir = -1) and coordinate_plane_pan_right (+1)
coordinate_plane_pan_x(st, dir) ==
    LET x_span == LdSub(coordinate_plane_x_max(st.plane),
                        coordinate_plane_x_min(st.plane))
        d == LdDiv(x_span, LdFromInt(8))
        x == IF dir < 0 THEN LdSub(st.plane.center.x, d)
             ELSE LdAdd(st.plane.center.x, d)
    IN  coordinate_plane_reset(st, st.plane.win_width, st.plane.win_height,
            XY(x, st.plane.center.y), st.plane.resolution_x,
            st.plane.resolution_y, st.plane.pfuncs_idx, st.plane.seed)

\* coordinate_plane_pan_up (dir = +1) and coordinate_plane_pan_down (-1)
coordinate_plane_pan_y(st, dir) ==
    LET y_span == LdSub(coordinate_plane_y_max(st.plane),
                        coordinate_plane_y_min(st.plane))
        d == LdDiv(y_span, LdFromInt(8))
        y == IF dir < 0 THEN LdSub(st.plane.center.y, d)
             ELSE LdAdd(st.plane.center.y, d)
    IN  coordinate_plane_reset(st, st.plane.win_width, st.plane.win_height,
            XY(st.plane.center.x, y), st.plane.resolution_x,
            st.plane.resolution_y, st.plane.pfuncs_idx, st.plane.seed)

\* a recenter that keeps the centre
RecenterKeepsCentre(st, x, y) ==
    coordinate_plane_reset(st, st.plane.win_width, st.plane.win_height,
        st.plane.center, st.plane.resolution_x, st.plane.resolution_y,
        st.plane.pfuncs_idx, st.plane.seed)

\* coordinate_plane_recenter
coordinate_plane_recenter(st, x, y) ==
    coordinate_plane_reset(st, st.plane.win_width, st.plane.win_height,
        st.all_points[(st.plane.win_width * y) + x].c,
        st.plane.resolution_x, st.plane.resolution_y, st.plane.pfuncs_idx,
        st.plane.seed)

\* coordinate_plane_resize
coordinate_plane_resize(st, new_w, new_h, preserve_ratio) ==
    LET rx == LdDiv(LdSub(coordinate_plane_x_max(st.plane),
                          coordinate_plane_x_min(st.plane)),
                    LdFromInt(new_w))
        ry == IF preserve_ratio
              THEN LdDiv(LdSub(coordinate_plane_y_max(st.plane),
                               coordinate_plane_y_min(st.plane)),
                         LdFromInt(new_h))
              ELSE rx
    IN  coordinate_plane_reset(st, new_w, new_h, st.plane.center, rx, ry,
            st.plane.pfuncs_idx, st.plane.seed)

NextFunction == ViewChange(coordinate_plane_next_function(Cur))
ZoomIn == ViewChange(coordinate_plane_zoom(Cur, DblLit(8, 10)))
ZoomOut == ViewChange(coordinate_plane_zoom(Cur, DblLit(125, 100)))
PanLeft == ViewChange(coordinate_plane_pan_x(Cur, -1))
PanRight == ViewChange(coordinate_plane_pan_x(Cur, 1))
PanUp == ViewChange(coordinate_plane_pan_y(Cur, 1))
PanDown == ViewChange(coordinate_plane_pan_y(Cur, -1))
Recenter(x, y) ==
    /\ plane.alive
    /\ x < plane.win_width /\ y < plane.win_height
    /\ nops < MaxOps
    /\ ViewReset(coordinate_plane_recenter(Cur, x, y))
    /\ hist' = Append(hist, [op |-> "recenter", x |-> x, y |-> y])
    /\ UNCHANGED base
Resize(w, h, preserve_ratio) ==
    ViewChange(coordinate_plane_resize(Cur, w, h, preserve_ratio))

(* ----------------------- plane specification -------------------------- *)

PlaneNext ==
    \/ \E steps \in 0..MaxSteps : IterateNoWork(steps)
    \/ \E steps \in 0..MaxSteps : IterateSingle(steps)
    \/ \E steps \in 0..MaxSteps : IterateDispatch(steps)
    \/ \E t \in 0..(MaxThreads - 1) : ContextJobStart(t)
    \/ \E t \in 0..(MaxThreads - 1) : ContextJob(t)
    \/ IterateWaited
    \/ IterateMerge
    \/ ThreadsMore
    \/ ThreadsLess
    \/ NextFunction
    \/ ZoomIn
    \/ ZoomOut
    \/ PanLeft
    \/ PanRight
    \/ PanUp
    \/ PanDown
    \/ \E x \in 0..(MaxWidth - 1), y \in 0..(MaxHeight - 1) : Recenter(x, y)
    \/ \E w \in 1..MaxWidth, h \in 1..MaxHeight, pr \in BOOLEAN :
           Resize(w, h, pr)

\* the plane with its pool reduced to plane->tpool (its size) and the
\* jobs of a batch; the pool's own variables stay as they are before
\* basic_thread_pool_new
PlaneSpec == PlaneInit /\ [][PlaneNext]_vars

(* --------------------- the plane from its arguments ------------------- *)

\* the resolutions a plane is asked for: negative, zero, positive, NaN
ArgResolutions == {LdFromInt(-1), 0, LdFromInt(1), LdNaN}

\* main: coordinate_plane_new with the values of the command line
PlaneNewFromArgs(w, h, rx, ry, idx) ==
    /\ ipc = "none"
    /\ \E st \in {coordinate_plane_new(w, h, XY(LdLit(-1, 2), 0), rx, ry, idx,
                                        XY(LdLit(1, 2), 0), 0, SkipRounds,
                                        1)} :
           /\ plane' = st.plane
           /\ all_points' = st.all_points
           /\ scratch' = st.scratch
           /\ points_not_escaped' = st.points_not_escaped
           /\ contexts' = [i \in 0..(st.plane.contexts_len - 1) |-> JunkCtx]
           /\ ref' = OneThread(st)
           /\ ipc' = IF st.plane.alive THEN "idle" ELSE "dead"
    /\ frame' = NoFrame
    /\ UNCHANGED <<ret, oob, nops, nsteps, threads_changed, ghostVars, buf,
                   loop>>
    /\ UNCHANGED poolVars

ArgsInit == PoolInit /\ debug_build = FALSE

ArgsNext ==
    \/ \E w \in 1..2, h \in 1..2, rx \in ArgResolutions,
          ry \in ArgResolutions, idx \in 0..(pfuncs_len - 1) :
           PlaneNewFromArgs(w, h, rx, ry, idx)
    \/ NextFunction
    \/ ZoomIn
    \/ ZoomOut
    \/ PanLeft
    \/ PanRight
    \/ PanUp
    \/ PanDown
    \/ \E x \in 0..1, y \in 0..1 : Recenter(x, y)
    \/ \E w \in 1..2, h \in 1..2, pr \in BOOLEAN : Resize(w, h, pr)

\* a plane made from any arguments, then one change of view
ArgsSpec == ArgsInit /\ [][ArgsNext]_vars

(* ------------------- the view operations in sequence ------------------ *)

\* the view operations of a run of the sequences
MaxViewOps == 2

\* the centres and resolutions the sequences start from
ViewCenters == {XY(LdLit(-1, 2), 0), XY(LdLit(3, 10), LdLit(3, 10))}
ViewResolutions == {LdFromInt(1), LdFromInt(4)}

\* coordinate_plane_new on one thread, remembered as base
ViewInit ==
    /\ NoPool
    /\ debug_build = FALSE
    /\ \E w \in 1..MaxWidth, h \in 1..MaxHeight, ctr \in ViewCenters,
       r \in ViewResolutions, idx \in 0..(pfuncs_len - 1), sd \in Seeds :
        \E st \in {coordinate_plane_new(w, h, ctr, r, r, idx, sd, 0,
                                        SkipRounds, 1)} :
            /\ plane = st.plane
            /\ all_points = st.all_points
            /\ scratch = st.scratch
            /\ points_not_escaped = st.points_not_escaped
            /\ contexts = [i \in 0..(st.plane.contexts_len - 1) |-> JunkCtx]
            /\ ipc = "idle"
            /\ frame = NoFrame
            /\ ret = 0
            /\ oob = FALSE
            /\ nops = 0
            /\ nsteps = 0
            /\ ref = OneThread(st)
            /\ threads_changed = FALSE
            /\ base = st
            /\ hist = <<>>
            /\ pool_log = <<>>
            /\ buf = NoBuf
            /\ loop = NoLoop

\* a view operation op of a run with at most MaxViewOps of them
ViewOp(op, st) ==
    /\ nops < MaxViewOps
    /\ ViewReset(st)
    /\ hist' = Append(hist, Did(op))
    /\ UNCHANGED base

\* coordinate_plane_reset called again with the arguments of the last
\* reset, all of which the plane keeps
ViewResetAgain ==
    ViewOp("reset",
           coordinate_plane_reset(Cur, plane.win_width, plane.win_height,
               plane.center, plane.resolution_x, plane.resolution_y,
               plane.pfuncs_idx, plane.seed))
ViewNextFunction ==
    ViewOp("next_function", coordinate_plane_next_function(Cur))
ViewZoomIn == ViewOp("zoom_in", coordinate_plane_zoom(Cur, DblLit(8, 10)))
ViewZoomOut ==
    ViewOp("zoom_out", coordinate_plane_zoom(Cur, DblLit(125, 100)))
ViewPanLeft == ViewOp("pan_left", coordinate_plane_pan_x(Cur, -1))
ViewPanRight == ViewOp("pan_right", coordinate_plane_pan_x(Cur, 1))
ViewPanUp == ViewOp("pan_up", coordinate_plane_pan_y(Cur, 1))
ViewPanDown == ViewOp("pan_down", coordinate_plane_pan_y(Cur, -1))

ViewNext ==
    \/ \E steps \in 0..MaxSteps : IterateNoWork(steps)
    \/ \E steps \in 0..MaxSteps : IterateSingle(steps)
    \/ ViewResetAgain
    \/ ViewNextFunction
    \/ ViewZoomIn
    \/ ViewZoomOut
    \/ ViewPanLeft
    \/ ViewPanRight
    \/ ViewPanUp
    \/ ViewPanDown

\* one plane, iterated on the calling thread, under sequences of view
\* operations
ViewSpec == ViewInit /\ [][ViewNext]_vars

(* --------------------- the plane and its thread count ----------------- *)

\* the largest num_threads of a run of thread-count changes
MaxPoolThreads == 3

\* coordinate_plane_new of one 3x1 Julia view
ThreadsInit ==
    /\ NoPool
    /\ debug_build = FALSE
    /\ \E nt \in {0, 2} :
        \E st \in {coordinate_plane_new(3, 1, XY(LdLit(-1, 2), 0), LdFromInt(1),
                        LdFromInt(1), pfuncs_julia_idx, XY(LdLit(1, 2), 0), 0,
                        SkipRounds, nt)} :
            /\ plane = st.plane
            /\ all_points = st.all_points
            /\ scratch = st.scratch
            /\ points_not_escaped = st.points_not_escaped
            /\ contexts = [i \in 0..(st.plane.contexts_len - 1) |-> JunkCtx]
            /\ ipc = "idle"
            /\ frame = NoFrame
            /\ ret = 0
            /\ oob = FALSE
            /\ nops = 0
            /\ nsteps = 0
            /\ ref = OneThread(st)
            /\ threads_changed = FALSE
            /\ base = st
            /\ hist = <<>>
            /\ pool_log = <<>>
            /\ buf = NoBuf
            /\ loop = NoLoop

ThreadsNext ==
    \/ \E steps \in 0..MaxSteps : IterateNoWork(steps)
    \/ \E steps \in 0..MaxSteps : IterateSingle(steps)
    \/ \E steps \in 0..MaxSteps : IterateDispatch(steps)
    \/ \E t \in 0..(MaxPoolThreads - 1) : ContextJobStart(t)
    \/ \E t \in 0..(MaxPoolThreads - 1) : ContextJob(t)
    \/ IterateWaited
    \/ IterateMerge
    \/ ThreadsMoreUpTo(MaxPoolThreads)
    \/ ThreadsLess

\* one view iterated while the thread count goes up and down
ThreadsSpec == ThreadsInit /\ [][ThreadsNext]_vars

(* ----------------------------- the palette ---------------------------- *)

\* fraction bits kept of the base-2 logarithm of a palette index
LogBits == 12
LogUnit == 2 ^ LogBits

Black == [red |-> 0, green |-> 0, blue |-> 0]

\* the whole part of log2(n), n >= 1
RECURSIVE FloorLog2(_)
FloorLog2(n) == IF n < 2 THEN 0 ELSE 1 + FloorLog2(n \div 2)

\* the first k fraction bits of log2(y / LogUnit) for y in
\* [LogUnit, 2 LogUnit), by repeated squaring
RECURSIVE Log2Frac(_, _)
Log2Frac(y, k) ==
    IF k = 0 THEN 0
    ELSE CHOOSE r \in {IF sq >= 2 * LogUnit
                       THEN 2 ^ (k - 1) + Log2Frac(sq \div 2, k - 1)
                       ELSE Log2Frac(sq, k - 1) :
                       sq \in {(y * y) \div LogUnit}} : TRUE

\* log2(n) in units of 1 / LogUnit, n >= 1
Log2(n) ==
    FloorLog2(n) * LogUnit
        + Log2Frac((n * LogUnit) \div (2 ^ FloorLog2(n)), LogBits)

\* rgb_from_hsv for saturation 1 and value 1 (chroma 1, smallm 0); the hue
\* is h60 / d sixths of the circle and the channels come back as
\* numerators over d
rgb_from_hsv(h60, d) ==
    LET chroma == d
        offset == d - Abs((h60 % (2 * d)) - d)
        smallm == 0
        sector == h60 \div d
    IN  CASE sector = 0 -> [red |-> chroma, green |-> offset, blue |-> smallm]
          [] sector = 1 -> [red |-> offset, green |-> chroma, blue |-> smallm]
          [] sector = 2 -> [red |-> smallm, green |-> chroma, blue |-> offset]
          [] sector = 3 -> [red |-> smallm, green |-> offset, blue |-> chroma]
          [] sector = 4 -> [red |-> offset, green |-> smallm, blue |-> chroma]
          [] sector = 5 -> [red |-> chroma, green |-> smallm, blue |-> offset]
          [] OTHER -> [red |-> smallm, green |-> smallm, blue |-> smallm]

\* rgb24_from_rgb: 255 * channel, truncated to a byte
rgb24_from_rgb(rgb, d) ==
    [red |-> (255 * rgb.red) \div d, green |-> (255 * rgb.green) \div d,
     blue |-> (255 * rgb.blue) \div d]

\* long_tail_gradiant: hue, saturation and value are 0 for distance 0,
\* which is black; otherwise hue = 360 * fmod(log2(distance) / 8, 1.0) at
\* full saturation and value
long_tail_gradiant(distance) ==
    IF distance = 0 THEN Black
    ELSE LET log_divisor == 8
             d == log_divisor * LogUnit
         IN  rgb24_from_rgb(rgb_from_hsv(6 * (Log2(distance) % d), d), d)

\* grow_palette(palette, len, prefix_black, amount); grown is whether
\* realloc succeeded.  oob: the first loop runs i up to prefix_black, past
\* the end of the new allocation when prefix_black > new_len
grow_palette(palette, prefix_black, amount, grown) ==
    IF ~grown THEN [palette |-> palette, oob |-> FALSE]
    ELSE LET keep == ArrayLen(palette)
             new_len == amount + keep
         IN  [palette |-> [i \in 0..(new_len - 1) |->
                              IF i < keep THEN palette[i]
                              ELSE IF i < prefix_black THEN Black
                              ELSE long_tail_gradiant(i)],
              oob |-> prefix_black > new_len]

\* grow_palette: the indices i its two loops store palette[i] at, when
\* called on a palette of keep entries
grow_palette_stores(keep, prefix_black, amount) ==
    (keep..(prefix_black - 1))
        \cup ((IF keep >= prefix_black THEN keep ELSE prefix_black)
                  ..((amount + keep) - 1))

\* rgb_24_to_uint32
rgb_24_to_uint32(rgb) == (rgb.red * 65536) + (rgb.green * 256) + rgb.blue

(* --------------------------- the pixel buffer ------------------------- *)

\* a line context fresh from calloc
ZeroLineCtx == [first_y |-> 0, lines |-> 0, done |-> FALSE, pc |-> "idle"]

\* pixel_buffer_new(window_x, window_y, palette_len, skip_rounds);
\* grew: the arguments of the last grow_palette call and the old length
pixel_buffer_new(window_x, window_y, palette_len, skip_rounds) ==
    LET g == grow_palette(<<>>, skip_rounds, palette_len, TRUE)
    IN  [alive |-> TRUE, width |-> window_x, height |-> window_y,
         pixels |-> [k \in 0..((window_x * window_y) - 1) |-> Junk],
         palette |-> g.palette, palette_len |-> ArrayLen(g.palette),
         palette_oob |-> g.oob,
         contexts |-> <<>>, contexts_len |-> 0,
         num_contexts |-> 0, rejected |-> {},
         grew |-> [keep |-> 0, prefix_black |-> skip_rounds,
                   amount |-> palette_len]]

\* pixel_buffer_new_from_plane(plane, palette_len)
pixel_buffer_new_from_plane(pl, palette_len) ==
    pixel_buffer_new(pl.win_width, pl.win_height, palette_len,
                     pl.skip_rounds)

\* coordinate_plane_escaped(plane, x, y)
coordinate_plane_escaped(x, y) ==
    all_points[(y * plane.win_width) + x].escaped

\* the packed colour pixel_buffer_update_line stores for pixel (x, y)
PixelColour(x, y) ==
    rgb_24_to_uint32(buf.palette[coordinate_plane_escaped(x, y)
                                     % buf.palette_len])

\* pixel_buffer_update_line for each y of first_y .. first_y + lines - 1
UpdateLines(pixels, first_y, lines) ==
    [k \in DOMAIN pixels |->
        IF (k \div buf.width) \in first_y..(first_y + lines - 1)
        THEN PixelColour(k % buf.width, k \div buf.width)
        ELSE pixels[k]]

minz(a, b) == IF a < b THEN a ELSE b

\* a pass whose every context takes the plain share of the lines
LineCtxNoLeftover(i, num_contexts, height) ==
    [first_y |-> i * (height \div num_contexts),
     lines |-> height \div num_contexts,
     done |-> FALSE, pc |-> "queued"]

\* pixel_buffer_update: the context of index i of num_contexts
LineCtx(i, num_contexts, height) ==
    LET lines == height \div num_contexts
        leftover == height % num_contexts
    IN  [first_y |-> i * lines,
         lines |-> IF i = num_contexts - 1 THEN lines + leftover ELSE lines,
         done |-> FALSE, pc |-> "queued"]

\* the todo list after basic_thread_pool_add of the contexts i..n-1 that
\* the pool accepts; the elem of context i is i + 1
RECURSIVE AddLineContexts(_, _, _, _)
AddLineContexts(q, i, n, rejected) ==
    IF i >= n THEN q
    ELSE AddLineContexts(IF i \in rejected THEN q
                         ELSE Enqueue(q.first, q.last, q.next, i + 1),
                         i + 1, n, rejected)

pixelRest == <<all_points, scratch, points_not_escaped, contexts, frame, ret,
               oob, nops, nsteps, ref, threads_changed, ghostVars, loop>>

\* pixel_buffer_new_from_plane(plane, palette_len) in main
PixelBufferNew(palette_len) ==
    /\ plane.alive /\ ipc = "idle"
    /\ ~buf.alive
    /\ buf' = pixel_buffer_new_from_plane(plane, palette_len)
    /\ UNCHANGED <<plane, ipc, pixelRest>>
    /\ UNCHANGED poolVars

\* pixel_buffer_update while the plane has no pool: with plane->tpool NULL
\* basic_thread_pool_size fails its assert(pool), or built NDEBUG reads
\* through the null pointer; either way the process ends
PixelUpdateNoPool ==
    /\ plane.alive /\ buf.alive /\ ipc = "idle"
    /\ plane.tpool = NULL
    /\ ipc' = "dead"
    /\ UNCHANGED <<plane, buf, pixelRest>>
    /\ UNCHANGED poolVars

\* pixel_buffer_update up to the polling of the done flags: die when the
\* sizes differ, colour every line on the calling thread when the pool has
\* fewer than two workers, otherwise make sure there is a context per
\* worker, set up min(contexts_len, height) of them and add them to the
\* pool; an add that fails marks its context done at once
PixelUpdate ==
    /\ plane.alive /\ buf.alive /\ ipc = "idle"
    /\ plane.tpool # NULL
    /\ IF plane.win_width # buf.width \/ plane.win_height # buf.height
       THEN /\ ipc' = "dead"
            /\ UNCHANGED <<buf, first, last, elem_next>>
       ELSE IF plane.tpool < 2
       THEN /\ buf' = [buf EXCEPT
                          !.pixels = UpdateLines(@, 0, plane.win_height)]
            /\ UNCHANGED <<ipc, first, last, elem_next>>
       ELSE \E len \in {IF buf.contexts_len < plane.tpool
                        THEN plane.tpool ELSE buf.contexts_len} :
            \E n \in {minz(len, plane.win_height)} :
            \E rejected \in {{}} \cup {{i} : i \in 0..(n - 1)} :
            \E q \in {AddLineContexts([first |-> first, last |-> last,
                                       next |-> elem_next], 0, n,
                                      rejected)} :
                /\ buf' = [buf EXCEPT
                      !.contexts_len = len,
                      !.contexts = [i \in 0..(len - 1) |->
                          IF i < n
                          THEN [LineCtx(i, n, plane.win_height) EXCEPT
                                   !.done = i \in rejected,
                                   !.pc = IF i \in rejected THEN "idle"
                                          ELSE "queued"]
                          ELSE IF buf.contexts_len < plane.tpool
                          THEN ZeroLineCtx
                          ELSE buf.contexts[i]],
                      !.num_contexts = n,
                      !.rejected = rejected]
                /\ first' = q.first
                /\ last' = q.last
                /\ elem_next' = q.next
                /\ ipc' = "pixels"
    /\ UNCHANGED <<plane, pixelRest>>
    /\ UNCHANGED <<num_working, poolRest>>

\* basic_thread_pool_loop: a worker detaches the head of the todo list,
\* the elem of line context i, and counts itself as working
PixelJobStart(i) ==
    /\ ipc = "pixels"
    /\ i \in DOMAIN buf.contexts
    /\ buf.contexts[i].pc = "queued"
    /\ first = i + 1
    /\ first' = elem_next[first]
    /\ num_working' = num_working + 1
    /\ buf' = [buf EXCEPT !.contexts[i].pc = "running"]
    /\ UNCHANGED <<plane, ipc, pixelRest>>
    /\ UNCHANGED <<last, elem_next, poolRest>>

\* the worker runs the job of line context i,
\* pixel_buffer_update_line_ctx, which colours its lines and sets done, and
\* counts itself as no longer working
PixelJob(i) ==
    /\ ipc = "pixels"
    /\ i \in DOMAIN buf.contexts
    /\ buf.contexts[i].pc = "running"
    /\ buf' = [buf EXCEPT
                  !.pixels = UpdateLines(@, buf.contexts[i].first_y,
                                         buf.contexts[i].lines),
                  !.contexts[i].done = TRUE,
                  !.contexts[i].pc = "idle"]
    /\ num_working' = num_working - 1
    /\ UNCHANGED <<plane, ipc, pixelRest>>
    /\ UNCHANGED <<first, last, elem_next, poolRest>>

\* a pixel_buffer_update that returns without polling the done flags
PixelReturnAtOnce ==
    /\ ipc = "pixels"
    /\ ipc' = "idle"
    /\ UNCHANGED <<plane, buf, pixelRest>>
    /\ UNCHANGED poolVars

\* pixel_buffer_update: for each context, while (!ctx->done) thrd_yield();
\* then return
PixelReturn ==
    /\ ipc = "pixels"
    /\ \A i \in 0..(buf.num_contexts - 1) : buf.contexts[i].done
    /\ ipc' = "idle"
    /\ UNCHANGED <<plane, buf, pixelRest>>
    /\ UNCHANGED poolVars

\* the lengths of the palettes of the planes that are coloured
PaletteLens == {2, 3}
\* the heights of the planes that are coloured
MaxPixelHeight == 4

\* coordinate_plane_new in main, for a plane that is then iterated on two
\* or three threads and coloured
PixelInit ==
    /\ NoPool
    /\ debug_build = FALSE
    /\ \E w \in 1..2, h \in 1..MaxPixelHeight, nt \in {2, MaxPoolThreads} :
        \E st \in {coordinate_plane_new(w, h, XY(LdLit(-1, 2), 0),
                        LdFromInt(1), LdFromInt(1), 0, XY(LdLit(1, 2), 0),
                        0, SkipRounds, nt)} :
            /\ plane = st.plane
            /\ all_points = st.all_points
            /\ scratch = st.scratch
            /\ points_not_escaped = st.points_not_escaped
            /\ contexts = [i \in 0..(st.plane.contexts_len - 1) |-> JunkCtx]
            /\ ipc = "idle"
            /\ frame = NoFrame
            /\ ret = 0
            /\ oob = FALSE
            /\ nops = 0
            /\ nsteps = 0
            /\ ref = OneThread(st)
            /\ threads_changed = FALSE
            /\ base = st
            /\ hist = <<>>
            /\ pool_log = <<>>
            /\ buf = NoBuf
            /\ loop = NoLoop

PixelNext ==
    \/ \E n \in PaletteLens : PixelBufferNew(n)
    \/ \E steps \in 0..MaxSteps : IterateNoWork(steps)
    \/ \E steps \in 0..MaxSteps : IterateDispatch(steps)
    \/ \E t \in 0..(MaxPoolThreads - 1) : ContextJobStart(t)
    \/ \E t \in 0..(MaxPoolThreads - 1) : ContextJob(t)
    \/ IterateWaited
    \/ IterateMerge
    \/ PixelUpdateNoPool
    \/ PixelUpdate
    \/ \E i \in 0..(MaxPoolThreads - 1) : PixelJobStart(i)
    \/ \E i \in 0..(MaxPoolThreads - 1) : PixelJob(i)
    \/ PixelReturn

\* a plane iterated and coloured frame after frame
PixelSpec == PixelInit /\ [][PixelNext]_vars

(* -------------------------- growing a palette ------------------------- *)

\* the longest palette grown
MaxPalette == 4
\* the largest prefix_black a palette is grown with
MaxPrefixBlack == 5

\* pixel_buffer_new(1, 1, palette_len, skip_rounds): the palette is built
\* from empty
PaletteNew(palette_len, skip_rounds) ==
    /\ ~buf.alive
    /\ buf' = pixel_buffer_new(1, 1, palette_len, skip_rounds)
    /\ UNCHANGED <<plane, ipc, pixelRest>>
    /\ UNCHANGED poolVars

\* grow_palette(buf->palette, &buf->palette_len, prefix_black, amount) on
\* a palette that has entries already
PaletteGrow(prefix_black, amount) ==
    /\ buf.alive
    /\ ~buf.palette_oob
    /\ buf.palette_len + amount <= MaxPalette
    /\ \E g \in {grow_palette(buf.palette, prefix_black, amount, TRUE)} :
           buf' = [buf EXCEPT
                      !.palette = g.palette,
                      !.palette_len = ArrayLen(g.palette),
                      !.palette_oob = g.oob,
                      !.grew = [keep |-> buf.palette_len,
                                prefix_black |-> prefix_black,
                                amount |-> amount]]
    /\ UNCHANGED <<plane, ipc, pixelRest>>
    /\ UNCHANGED poolVars

PaletteNext ==
    \/ \E n \in 1..MaxPalette, k \in 0..MaxPrefixBlack : PaletteNew(n, k)
    \/ \E k \in 0..MaxPrefixBlack, n \in 1..MaxPalette : PaletteGrow(k, n)

\* palettes built from empty and grown
PaletteSpec == PoolInit /\ [][PaletteNext]_vars

(* ---------------------------- the frame loop -------------------------- *)
(* it_per_frame * ratio is computed in double.  A double is written here  *)
(* as the binary digits of its significand, most significant first, and   *)
(* every operation rounds to DblDigits digits, to nearest, ties to even.  *)

\* DBL_MANT_DIG
DblDigits == 53

\* the binary digits of the integer c, none for 0
RECURSIVE BitsOf(_)
BitsOf(c) == IF c = 0 THEN <<>> ELSE Append(BitsOf(c \div 2), c % 2)

\* the integer whose binary digits are the first n of b
RECURSIVE BitsToInt(_, _)
BitsToInt(b, n) == IF n = 0 THEN 0 ELSE (2 * BitsToInt(b, n - 1)) + b[n]

\* b + 1
BitsInc(b) ==
    IF \A i \in 1..Len(b) : b[i] = 1
    THEN <<1>> \o [i \in 1..Len(b) |-> 0]
    ELSE LET k == CHOOSE i \in 1..Len(b) :
                      b[i] = 0 /\ \A j \in (i + 1)..Len(b) : b[j] = 1
         IN  [i \in 1..Len(b) |->
                 IF i < k THEN b[i] ELSE IF i = k THEN 1 ELSE 0]

\* (the first i digits of b, times n) + c
RECURSIVE BitsTimes(_, _, _, _)
BitsTimes(b, n, i, c) ==
    IF i = 0 THEN BitsOf(c)
    ELSE CHOOSE r \in {Append(BitsTimes(b, n, i - 1, v \div 2), v % 2) :
                           v \in {(b[i] * n) + c}} : TRUE

\* b rounded to its DblDigits leading digits, the rest of them zero
BitsRound(b) ==
    IF Len(b) <= DblDigits THEN b
    ELSE LET keep == SubSeq(b, 1, DblDigits)
             half == b[DblDigits + 1] = 1
             more == \E i \in (DblDigits + 2)..Len(b) : b[i] = 1
             up == half /\ (more \/ keep[DblDigits] = 1)
         IN  (IF up THEN BitsInc(keep) ELSE keep)
                 \o [i \in 1..(Len(b) - DblDigits) |-> 0]

\* the double nearest to n / d for 0 < n < d, as [bits, e]: the value is
\* bits / 2^e.  rem / d is what is left to divide after e digits
RECURSIVE DblQuot(_, _, _, _)
DblQuot(rem, d, bits, e) ==
    IF Len(bits) = DblDigits
    THEN [bits |-> IF (2 * rem > d) \/ (2 * rem = d /\ bits[DblDigits] = 1)
                   THEN BitsInc(bits) ELSE bits,
          e |-> e]
    ELSE CHOOSE r \in
             {DblQuot(x.rem, d, x.bits, e + 1) :
                  x \in {IF 2 * rem >= d
                         THEN [rem |-> (2 * rem) - d, bits |-> Append(bits, 1)]
                         ELSE [rem |-> 2 * rem,
                               bits |-> IF bits = <<>> THEN bits
                                        ELSE Append(bits, 0)]}} : TRUE

\* double ratio = ht / diff; uint32_t new_per_frame = it_per_frame * ratio;
\* for diff > high: the conversion to uint32_t drops the fraction
new_per_frame(it_per_frame, high, diff) ==
    CHOOSE n \in
        {IF Len(prod.bits) <= prod.e THEN 0
         ELSE BitsToInt(prod.bits, Len(prod.bits) - prod.e) :
             prod \in {[bits |-> BitsRound(BitsTimes(ratio.bits, it_per_frame,
                                                    Len(ratio.bits), 0)),
                        e |-> ratio.e] :
                           ratio \in {DblQuot(high, diff, <<>>, 0)}}} : TRUE

usec_per_sec == 1000000
usec_per_frame_high_threshold == usec_per_sec \div 30
usec_per_frame_low_threshold == usec_per_sec \div 45

\* a controller that keeps what the product gave, 0 included
ItPerFrameNoFloor(it_per_frame, diff) ==
    IF diff < usec_per_frame_low_threshold THEN it_per_frame + 1
    ELSE IF diff > usec_per_frame_high_threshold /\ it_per_frame > 1
    THEN IF it_per_frame < 10 THEN it_per_frame - 1
         ELSE CHOOSE v \in {new_per_frame(it_per_frame,
                                usec_per_frame_high_threshold, diff)} :
                  TRUE
    ELSE it_per_frame

\* sdl_coord_plane_iteration: it_per_frame after a frame that took diff
\* microseconds
ItPerFrameNext(it_per_frame, diff) ==
    IF diff < usec_per_frame_low_threshold THEN it_per_frame + 1
    ELSE IF diff > usec_per_frame_high_threshold /\ it_per_frame > 1
    THEN IF it_per_frame < 10 THEN it_per_frame - 1
         ELSE CHOOSE v \in
                  {IF n >= it_per_frame THEN it_per_frame - 1
                   ELSE IF n = 0 THEN 1 ELSE n :
                       n \in {new_per_frame(it_per_frame,
                                  usec_per_frame_high_threshold, diff)}} :
                  TRUE
    ELSE it_per_frame

\* the largest it_per_frame a run is followed to
MaxItPerFrame == 47

\* the times a frame is measured to take, in microseconds
FrameTimes == {22221, 22222, 30000, 33333, 33334, 122221, 522217}

\* coordinate_plane_iterate(plane, steps) on the calling thread, as
\* [plane, all_points, scratch, points_not_escaped, oob, ctx]
FrameIterate(steps) ==
    IF HasWork(IterateFrame(steps))
    THEN CHOOSE r \in
        {[plane |-> IterateTail(m.plane, IterateFrame(steps)),
          all_points |-> m.run.pts, scratch |-> m.run.scratch,
          points_not_escaped |-> m.pne, oob |-> m.run.oob,
          ctx |-> [m.run.ctx EXCEPT !.pc = "idle"]] :
         m \in {[run |-> run] @@
                UpdateFromContext(
                    [plane |-> [plane EXCEPT !.not_escaped = 0],
                     pne |-> run.pne], run.scratch, run.ctx) :
                run \in {ContextRun(plane, Heap, ContextStart(
                             ContextInit(IterateFrame(steps).steps, 0, 1,
                                         ArrayLen(scratch))))}}} : TRUE
    ELSE [plane |-> plane, all_points |-> all_points, scratch |-> scratch,
          points_not_escaped |-> points_not_escaped, oob |-> oob,
          ctx |-> contexts[0]]

\* the plane's variables after coordinate_plane_iterate(plane, steps)
FrameIterated(steps) ==
    \E r \in {FrameIterate(steps)} :
        /\ plane' = r.plane
        /\ all_points' = r.all_points
        /\ scratch' = r.scratch
        /\ points_not_escaped' = r.points_not_escaped
        /\ oob' = r.oob
        /\ contexts' = [contexts EXCEPT ![0] = r.ctx]
        /\ ret' = r.plane.escaped - plane.escaped
        /\ ref' = SingleThreadedIterate(ref, steps)

\* one pass of the while (!shutdown) loop of sdl_coord_plane_iteration
\* while no event is pending, built SKIP_THREADS: iterate, test
\* halt_after, colour every line, time the frame, adjust it_per_frame
GuiFrame(diff) ==
    /\ loop.ui = "gui" /\ ~loop.shutdown
    /\ (loop.it_per_frame < MaxItPerFrame
           \/ diff >= usec_per_frame_low_threshold)
    /\ FrameIterated(loop.it_per_frame)
    /\ buf' = [buf EXCEPT !.pixels =
                  [k \in DOMAIN @ |->
                      rgb_24_to_uint32(
                          buf.palette[all_points'[k].escaped
                                          % buf.palette_len])]]
    /\ loop' = [loop EXCEPT
                   !.shutdown = plane'.halt_after # 0
                       /\ plane'.iteration_count >= plane'.halt_after,
                   !.diff = diff,
                   !.it_per_frame = ItPerFrameNext(@, diff)]
    /\ UNCHANGED <<ipc, frame, nops, nsteps, threads_changed, ghostVars>>
    /\ UNCHANGED poolVars

\* one pass of the for (i = 0; !halt; ++i) loop of the command line
\* program's main when halt_after is set: the keyboard is not read
CliFrame ==
    /\ loop.ui = "cli" /\ ~loop.halt
    /\ plane.halt_after # 0
    /\ FrameIterated(loop.it_per_frame)
    /\ loop' = [loop EXCEPT !.halt = loop.i >= plane.halt_after,
                            !.i = @ + 1]
    /\ UNCHANGED <<ipc, frame, nops, nsteps, threads_changed, ghostVars,
                   buf>>
    /\ UNCHANGED poolVars

\* the planes the frame loops are run on
FrameCenters == {XY(LdLit(-1, 2), 0), XY(LdFromInt(-3), 0)}

\* main: coordinate_plane_new_from_args with --halt_after and one thread,
\* then the frame loop of the window or of the terminal
FrameInit ==
    /\ NoPool
    /\ debug_build = FALSE
    /\ \E w \in 1..2, h \in 1..2, ctr \in FrameCenters, r \in Resolutions,
       idx \in 0..(pfuncs_len - 1), sd \in Seeds :
        \E st \in {coordinate_plane_new(w, h, ctr, r, r, idx, sd, HaltAfter,
                                        SkipRounds, 1)} :
            /\ plane = st.plane
            /\ all_points = st.all_points
            /\ scratch = st.scratch
            /\ points_not_escaped = st.points_not_escaped
            /\ contexts = [i \in 0..(st.plane.contexts_len - 1) |-> JunkCtx]
            /\ ref = OneThread(st)
            /\ \/ /\ \E n \in PaletteLens :
                         buf = pixel_buffer_new_from_plane(st.plane, n)
                  /\ loop = [ui |-> "gui", it_per_frame |-> 1,
                             shutdown |-> FALSE, diff |-> 0]
               \/ /\ buf = NoBuf
                  /\ loop = [ui |-> "cli", it_per_frame |-> 1, halt |-> FALSE,
                             i |-> 0]
    /\ ipc = "idle"
    /\ frame = NoFrame
    /\ ret = 0
    /\ oob = FALSE
    /\ nops = 0
    /\ nsteps = 0
    /\ threads_changed = FALSE
    /\ base = <<>>
    /\ hist = <<>>
    /\ pool_log = <<>>

FrameNext ==
    \/ \E diff \in FrameTimes : GuiFrame(diff)
    \/ CliFrame

\* the frame loops from the start of the program
FrameSpec == FrameInit /\ [][FrameNext]_vars

\* the loop's test has let it end: shutdown in the window, halt in the
\* terminal
FrameEnded ==
    \/ loop.ui = "gui" /\ loop.shutdown
    \/ loop.ui = "cli" /\ loop.halt

\* the values the locals of a frame loop take
LoopLocals ==
    [ui : {"gui"}, it_per_frame : 1..MaxItPerFrame, shutdown : BOOLEAN,
     diff : FrameTimes \cup {0}]
        \cup [ui : {"cli"}, it_per_frame : {1}, halt : BOOLEAN,
              i : 0..(HaltAfter + 1)]

\* a pass of a loop that has not ended, seen from the loop's locals alone
LoopPass == ~FrameEnded /\ loop' \in LoopLocals

\* the loop goes on to its next pass as long as its test lets it: the
\* thread is scheduled, and while (!shutdown) and for (...; !halt; ...)
\* enter the body again.  Every pass of FrameNext is a LoopPass, and a
\* pass is possible exactly when the loop has not ended
FrameFairSpec == FrameSpec /\ WF_loop(LoopPass)

(* ------------------------ a batch in two parts ------------------------ *)

\* a caller that asks for loop.left[1] steps, then for loop.left[2]:
\* coordinate_plane_iterate on the calling thread; ref is given the sum of
\* the two in one call
SplitIterate ==
    /\ loop.ui = "split" /\ loop.left # <<>>
    /\ \E r \in {FrameIterate(Head(loop.left))} :
        /\ plane' = r.plane
        /\ all_points' = r.all_points
        /\ scratch' = r.scratch
        /\ points_not_escaped' = r.points_not_escaped
        /\ oob' = r.oob
        /\ contexts' = [contexts EXCEPT ![0] = r.ctx]
        /\ ret' = r.plane.escaped - plane.escaped
    /\ ref' = IF Len(loop.left) = 2
              THEN SingleThreadedIterate(ref, loop.left[1] + loop.left[2])
              ELSE ref
    /\ loop' = [loop EXCEPT !.left = Tail(@)]
    /\ UNCHANGED <<ipc, frame, nops, nsteps, threads_changed, ghostVars, buf>>
    /\ UNCHANGED poolVars

\* a plane of one thread and the two step counts it is iterated by
SplitInit ==
    /\ NoPool
    /\ debug_build = FALSE
    /\ \E w \in 1..MaxWidth, h \in 1..MaxHeight, ctr \in FrameCenters,
       r \in Resolutions, idx \in 0..(pfuncs_len - 1), sd \in Seeds,
       ha \in {0, 2 * MaxSteps} :
        \E st \in {coordinate_plane_new(w, h, ctr, r, r, idx, sd, ha,
                                        SkipRounds, 1)} :
            /\ plane = st.plane
            /\ all_points = st.all_points
            /\ scratch = st.scratch
            /\ points_not_escaped = st.points_not_escaped
            /\ contexts = [i \in 0..(st.plane.contexts_len - 1) |-> JunkCtx]
            /\ ref = OneThread(st)
    /\ \E a \in 1..MaxSteps, b \in 1..MaxSteps :
           loop = [ui |-> "split", left |-> <<a, b>>, a |-> a, b |-> b]
    /\ ipc = "idle"
    /\ frame = NoFrame
    /\ ret = 0
    /\ oob = FALSE
    /\ nops = 0
    /\ nsteps = 0
    /\ threads_changed = FALSE
    /\ base = <<>>
    /\ hist = <<>>
    /\ pool_log = <<>>
    /\ buf = NoBuf

SplitNext == SplitIterate

\* iterate(a) then iterate(b), beside iterate(a + b)
SplitSpec == SplitInit /\ [][SplitNext]_vars

(* -------------------- a batch whose adds may fail --------------------- *)

\* coordinate_plane_iterate_multi_threaded up to basic_thread_pool_wait
\* when malloc fails in basic_thread_pool_add for the contexts in
\* rejected: add returns 1 before it queues anything, and the batch goes
\* on without looking at the return value, so the done flag of such a
\* context stays as coordinate_plane_iterate_context_init left it
IterateDispatchAdds(steps, rejected) ==
    /\ CanIterate(steps)
    /\ HasWork(IterateFrame(steps))
    /\ plane.num_threads >= 2
    /\ rejected \subseteq 0..(plane.num_threads - 1)
    /\ \E fr \in {IterateFrame(steps)}, n \in {plane.num_threads} :
           /\ plane' = [plane EXCEPT !.tpool = PoolSizeFor(@, n)]
           /\ contexts' = [i \in DOMAIN contexts |->
                  IF i < n
                  THEN [ContextInit(fr.steps, i, n, ArrayLen(scratch))
                           EXCEPT !.pc = IF i \in rejected THEN "idle"
                                         ELSE "queued"]
                  ELSE contexts[i]]
           /\ frame' = fr
           /\ \E q \in {AddLineContexts([first |-> first, last |-> last,
                                         next |-> elem_next], 0, n,
                                        rejected)} :
                  /\ first' = q.first
                  /\ last' = q.last
                  /\ elem_next' = q.next
           /\ pool_log' = pool_log \o PoolReplaced(plane.tpool, n)
    /\ ipc' = "batch"
    /\ nsteps' = nsteps + steps
    /\ loop' = [loop EXCEPT !.rejected = rejected]
    /\ UNCHANGED <<all_points, scratch, points_not_escaped, ret, oob, nops,
                   ref, threads_changed, base, hist, buf>>
    /\ UNCHANGED <<num_working, poolRest>>

\* while (!plane->contexts[i].done) thrd_yield(): the caller finds the
\* done flag of the first context it has not merged still clear and
\* yields (yields: the parity of the yields made, kept for the record)
IteratePoll ==
    /\ ipc = "merge"
    /\ \E t \in 0..(plane.num_threads - 1) : ~contexts[t].done
    /\ loop' = [loop EXCEPT !.yields = 1 - @]
    /\ UNCHANGED <<plane, all_points, scratch, points_not_escaped, contexts,
                   ipc, frame, ret, oob, nops, nsteps, ref, threads_changed>>
    /\ UNCHANGED poolVars
    /\ UNCHANGED <<ghostVars, buf>>

\* coordinate_plane_new of one 3x1 Julia view with 1..MaxPoolThreads
\* threads
AddsInit ==
    /\ NoPool
    /\ debug_build = FALSE
    /\ \E nt \in 1..MaxPoolThreads, ctr \in FrameCenters :
        \E st \in {coordinate_plane_new(3, 1, ctr, LdFromInt(1),
                        LdFromInt(1), pfuncs_julia_idx, XY(LdLit(1, 2), 0), 0,
                        SkipRounds, nt)} :
            /\ plane = st.plane
            /\ all_points = st.all_points
            /\ scratch = st.scratch
            /\ points_not_escaped = st.points_not_escaped
            /\ contexts = [i \in 0..(st.plane.contexts_len - 1) |-> JunkCtx]
            /\ ref = OneThread(st)
            /\ base = st
    /\ ipc = "idle"
    /\ frame = NoFrame
    /\ ret = 0
    /\ oob = FALSE
    /\ nops = 0
    /\ nsteps = 0
    /\ threads_changed = FALSE
    /\ hist = <<>>
    /\ pool_log = <<>>
    /\ buf = NoBuf
    /\ loop = [ui |-> "batch", rejected |-> {}, yields |-> 0]

\* the steps of the calling thread
AddsCaller ==
    \/ \E steps \in 1..MaxSteps : IterateNoWork(steps)
    \/ \E steps \in 1..MaxSteps : IterateSingle(steps)
    \/ \E steps \in 1..MaxSteps,
          rejected \in SUBSET (0..(MaxPoolThreads - 1)) :
           IterateDispatchAdds(steps, rejected)
    \/ IterateWaited
    \/ IteratePoll
    \/ IterateMerge

\* the steps of the pool's workers
AddsWorkers ==
    \/ \E t \in 0..(MaxPoolThreads - 1) : ContextJobStart(t)
    \/ \E t \in 0..(MaxPoolThreads - 1) : ContextJob(t)

AddsNext == AddsCaller \/ AddsWorkers

\* batches of one view, with and without failing adds
AddsSpec == AddsInit /\ [][AddsNext]_vars

\* a worker comes back from the job it runs, seen from num_working alone:
\* every ContextJob step is one, and one is possible exactly when a
\* ContextJob step is
JobReturns ==
    /\ ipc \in {"batch", "merge"}
    /\ \E t \in DOMAIN contexts : contexts[t].pc = "running"
    /\ num_working' = num_working - 1

\* the caller has found every done flag set and returns, seen from ipc
\* alone: every IterateMerge step is one, and one is possible exactly when
\* IterateMerge is
MergeReturns ==
    /\ ipc = "merge"
    /\ \A t \in 0..(plane.num_threads - 1) : contexts[t].done
    /\ ipc' = "idle"

\* a call that has begun goes on: the calling thread is scheduled again
\* and again (it returns from the wait once the pool is idle, polls, and
\* merges), and so are the workers (an idle worker takes the next job of
\* the list, a running job comes to its end)
AddsFairSpec ==
    /\ AddsSpec
    /\ WF_vars(IterateWaited \/ IteratePoll)
    /\ WF_ipc(MergeReturns)
    /\ WF_vars(\E t \in 0..(MaxPoolThreads - 1) : ContextJobStart(t))
    /\ WF_num_working(JobReturns)

(* ------------------------ plane: claims ------------------------------- *)

\* coordinate_plane_escaped_count
coordinate_plane_escaped_count == plane.escaped

\* coordinate_plane_not_escaped_count
coordinate_plane_not_escaped_count == plane.not_escaped + plane.trapped

\* C9: between calls, escaped + trapped + live length = width * height,
\* and so do the two reported totals.
C9_CountersPartitionThePlane ==
    (plane.alive /\ ipc = "idle") =>
        /\ plane.escaped + plane.trapped + plane.not_escaped
               = plane.win_width * plane.win_height
        /\ coordinate_plane_escaped_count + coordinate_plane_not_escaped_count
               = plane.win_width * plane.win_height

\* after a view change, the latest iterate call ran a batch on two or
\* more threads and points escaped in it, next to trapped and live ones
C9_Witness ==
    /\ plane.alive /\ ipc = "idle"
    /\ nops >= 1
    /\ plane.iteration_count > 0
    /\ plane.num_threads >= 2
    /\ contexts[0].step_size >= 2
    /\ ret > 0
    /\ plane.escaped > 0 /\ plane.not_escaped > 0 /\ plane.trapped > 0

\* C10: between calls the live list holds exactly the points that are
\* neither escaped nor trapped, each once.
C10_LiveListIsExactlyTheSurvivors ==
    (plane.alive /\ ipc = "idle") =>
        LET needed == plane.win_width * plane.win_height
            live == 0..(plane.not_escaped - 1)
        IN  /\ \A k \in live :
                  /\ points_not_escaped[k] \in 0..(needed - 1)
                  /\ all_points[points_not_escaped[k]].escaped = 0
                  /\ ~all_points[points_not_escaped[k]].trapped
            /\ \A k1, k2 \in live :
                  k1 # k2 => points_not_escaped[k1] # points_not_escaped[k2]
            /\ \A i \in 0..(needed - 1) :
                  (all_points[i].escaped = 0 /\ ~all_points[i].trapped)
                      => \E k \in live : points_not_escaped[k] = i

\* C11: whatever the thread count, the same iterate calls from the same
\* reset state leave every pixel's escaped value and the escaped, live
\* length and iteration_count counters as one thread leaves them.
C11_SameResultForAnyThreadCount ==
    (/\ plane.alive /\ ipc = "idle"
     /\ ~threads_changed /\ plane.num_threads >= 1) =>
        /\ \A i \in 0..(plane.win_width * plane.win_height - 1) :
               all_points[i].escaped = ref.all_points[i].escaped
        /\ plane.escaped = ref.plane.escaped
        /\ plane.not_escaped = ref.plane.not_escaped
        /\ plane.iteration_count = ref.plane.iteration_count

\* the scratch indices context t has stored survivors to in this batch
ScratchWritten(t) ==
    IF contexts[t].pc = "finished"
    THEN {contexts[t].not_escaped + k :
              k \in 0..(contexts[t].local_not_escaped - 1)}
    ELSE {}

\* C12: in every batch on two or more threads, the scratch indices one
\* context writes lie inside the scratch array and are written by no
\* other context of the batch.
C12_ScratchSlicesDisjoint ==
    ipc = "batch" =>
        /\ ~oob
        /\ \A t \in 0..(plane.num_threads - 1) :
               ScratchWritten(t) \subseteq 0..(ArrayLen(scratch) - 1)
        /\ \A t, u \in 0..(plane.num_threads - 1) :
               t # u => ScratchWritten(t) \cap ScratchWritten(u) = {}

\* the points context t has read and written in this batch
PointsTouched(t) == {points_not_escaped[j] : j \in contexts[t].seen}

\* C13: in every batch, live index j is processed by the context whose
\* offset is j mod W and by no other, and no point is read or written by
\* two contexts of the batch.
C13_EachPointTouchedByOneContext ==
    ipc = "batch" =>
        LET W == plane.num_threads
            ran == {t \in 0..(W - 1) : contexts[t].pc = "finished"}
        IN  /\ \A t \in ran :
                   contexts[t].seen =
                       {j \in 0..(plane.not_escaped - 1) : j % W = t}
            /\ \A t, u \in ran :
                   t # u => PointsTouched(t) \cap PointsTouched(u) = {}

\* the contexts of the current batch whose job a worker has not yet
\* finished
JobsOutstanding ==
    {t \in 0..(plane.num_threads - 1) :
         contexts[t].pc \in {"queued", "running"}}

Pixels == 0..(plane.win_width * plane.win_height - 1)

LiveSet == {points_not_escaped[k] : k \in 0..(plane.not_escaped - 1)}

\* C17: on a Mandelbrot plane every pixel whose c is in the main cardioid
\* or the period-2 bulb is trapped, is counted in plane->trapped, is not in
\* the live list, and has z = 0 and escaped = 0 whatever has been iterated.
C17_TrappedPixelsAreNeverIterated ==
    (plane.alive /\ plane.pfuncs_idx = pfuncs_mandlebrot_idx) =>
        LET inside == {i \in Pixels :
                          \/ mandelbrot_in_main_cardioid(all_points[i].c)
                          \/ mandelbrot_in_period2_bulb(all_points[i].c)}
        IN  /\ \A i \in inside :
                   /\ all_points[i].trapped
                   /\ all_points[i].z = XY(0, 0)
                   /\ all_points[i].escaped = 0
                   /\ i \notin LiveSet
            /\ plane.trapped = Cardinality(inside)

\* a Mandelbrot plane on two or more threads, iterated, with a pixel in the
\* period-2 bulb, a pixel in the main cardioid and live points
C17_Witness ==
    /\ plane.alive /\ ipc = "idle"
    /\ plane.pfuncs_idx = pfuncs_mandlebrot_idx
    /\ plane.num_threads >= 2
    /\ plane.iteration_count >= 2
    /\ plane.not_escaped > 0
    /\ \E i \in Pixels :
           /\ mandelbrot_in_period2_bulb(all_points[i].c)
           /\ all_points[i].trapped
    /\ \E i \in Pixels :
           /\ mandelbrot_in_main_cardioid(all_points[i].c)
           /\ all_points[i].trapped

\* C18: with halt_after = N > 0, iteration_count never exceeds N; a call
\* that runs a batch and asks for more steps than are left brings
\* iteration_count to exactly N; and once iteration_count is N no call
\* steps a point or changes the live list or iteration_count.
C18_HaltAfterCapsIterations ==
    /\ []((plane.alive /\ plane.halt_after # 0) =>
              plane.iteration_count <= plane.halt_after)
    /\ [][(plane.alive /\ plane.halt_after # 0 /\ nops' = nops) =>
              /\ (/\ ipc = "idle"
                  /\ plane.iteration_count + (nsteps' - nsteps)
                         > plane.halt_after
                  /\ plane.not_escaped # 0
                  /\ plane.iteration_count < plane.halt_after) =>
                     IF ipc' = "idle"
                     THEN plane'.iteration_count = plane.halt_after
                     ELSE plane.iteration_count + frame'.steps
                              = plane.halt_after
              /\ ipc = "merge" =>
                     plane'.iteration_count
                         = plane.iteration_count + frame.steps
              /\ plane.iteration_count = plane.halt_after =>
                     /\ plane'.iteration_count = plane.iteration_count
                     /\ all_points' = all_points
                     /\ points_not_escaped' = points_not_escaped
                     /\ plane'.not_escaped = plane.not_escaped
                     /\ ipc' = "idle"]_vars

\* a plane with a halt_after that has been asked for more steps than that
\* and stands at exactly halt_after iterations, with live points left
C18_Witness ==
    /\ plane.alive /\ ipc = "idle"
    /\ nops = 0
    /\ plane.halt_after # 0
    /\ nsteps > plane.halt_after
    /\ plane.iteration_count = plane.halt_after
    /\ plane.not_escaped > 0
    /\ plane.num_threads >= 2

\* C19: a coordinate_plane_iterate call whose clamped steps is 0, or made
\* while the live list is empty, returns 0, changes no counter, no point
\* and no entry of the live list, and adds no job to the pool.
C19_NoWorkCallChangesNothing ==
    [][(/\ plane.alive /\ ipc = "idle"
        /\ nops' = nops
        /\ plane'.num_threads = plane.num_threads
        /\ \/ ClampSteps(plane, nsteps' - nsteps) = 0
           \/ plane.not_escaped = 0) =>
           /\ ret' = 0
           /\ plane' = plane
           /\ all_points' = all_points
           /\ points_not_escaped' = points_not_escaped
           /\ ipc' = "idle"
           /\ first' = first
           /\ contexts' = contexts]_vars

\* a plane on two threads whose live list was empty from the reset on has
\* been asked to iterate, and did nothing
C19_Witness ==
    /\ plane.alive /\ ipc = "idle"
    /\ nops = 0
    /\ plane.num_threads >= 2
    /\ plane.not_escaped = 0
    /\ nsteps > 0
    /\ plane.iteration_count = 0
    /\ ret = 0
    /\ first = NULL

\* C20: between two resets no iterate call makes the live list longer or
\* the escaped counter smaller, and the value a call returns is the number
\* of entries by which it shortened the live list.
C20_LiveShrinksByTheReturnValue ==
    [][(plane.alive /\ nops' = nops) =>
           /\ plane'.escaped >= plane.escaped
           /\ (/\ ipc = "idle" /\ ipc' = "idle"
               /\ plane'.num_threads = plane.num_threads) =>
                  /\ plane'.not_escaped <= plane.not_escaped
                  /\ ret' = plane.not_escaped - plane'.not_escaped
           /\ (ipc = "merge" /\ ipc' = "idle") =>
                  /\ plane'.not_escaped <= frame.previous_not_escaped
                  /\ plane'.escaped >= frame.old_escaped
                  /\ ret' = frame.previous_not_escaped
                                - plane'.not_escaped]_vars

\* the latest call, on two or more threads, removed points from a live
\* list that an earlier call had already shortened
C20_Witness ==
    /\ plane.alive /\ ipc = "idle"
    /\ nops = 0
    /\ plane.num_threads >= 2
    /\ ret > 0
    /\ plane.escaped > ret
    /\ plane.not_escaped > 0

\* the step is the return of an iterate call that did work
IterateReturns == plane'.iteration_count > plane.iteration_count

\* the live length when the call that is returning began
LiveLengthAtCall ==
    IF ipc = "merge" THEN frame.previous_not_escaped ELSE plane.not_escaped

\* C25: unchanged is the number of steps done since the last batch that
\* changed the live length, or since reset: a call that did work and had
\* no new escape adds its steps, one with a new escape sets it to 0, a
\* reset sets it to 0 and nothing else writes it.
C25_UnchangedCountsQuietSteps ==
    [][/\ IterateReturns =>
             /\ (ret' > 0) <=> (plane'.not_escaped # LiveLengthAtCall)
             /\ plane'.unchanged =
                    IF ret' > 0 THEN 0
                    ELSE plane.unchanged
                         + (plane'.iteration_count - plane.iteration_count)
       /\ (nops' # nops /\ plane'.alive) => plane'.unchanged = 0
       /\ (~IterateReturns /\ nops' = nops) =>
             plane'.unchanged = plane.unchanged]_vars

\* on two or more threads, a batch with escapes has been followed by
\* batches without any, of two steps together
C25_Witness ==
    /\ plane.alive /\ ipc = "idle"
    /\ plane.num_threads >= 2
    /\ plane.escaped > 0
    /\ plane.unchanged >= 2
    /\ plane.iteration_count > plane.unchanged

\* C26: every pan, zoom, recenter, switch and resize ends in a reset:
\* after it iteration_count, escaped and unchanged are 0 and every point
\* of the window has escaped == 0, while halt_after, skip_rounds,
\* num_threads and the pool are as before; recenter(x, y) makes the c of
\* pixel (x, y) the centre and keeps resolution, function and seed.
C26_ViewChangeResetsAndKeepsSettings ==
    [][/\ (nops' # nops) =>
             /\ plane'.halt_after = plane.halt_after
             /\ plane'.skip_rounds = plane.skip_rounds
             /\ plane'.num_threads = plane.num_threads
             /\ plane'.tpool = plane.tpool
             /\ pool_log' = pool_log
             /\ plane'.alive =>
                    /\ plane'.iteration_count = 0
                    /\ plane'.escaped = 0
                    /\ plane'.unchanged = 0
                    /\ \A i \in Pixels' : all_points'[i].escaped = 0
       /\ (hist' # hist /\ hist'[Len(hist')].op = "recenter") =>
                 /\ plane'.center =
                        all_points[(plane.win_width * hist'[Len(hist')].y)
                                   + hist'[Len(hist')].x].c
                 /\ plane'.resolution_x = plane.resolution_x
                 /\ plane'.resolution_y = plane.resolution_y
                 /\ plane'.pfuncs_idx = plane.pfuncs_idx
                 /\ plane'.seed = plane.seed]_vars

\* a view change has reset a plane that has a pool and had escaped points,
\* and moved its centre
C26_Witness ==
    /\ plane.alive /\ ipc = "idle"
    /\ nops >= 1
    /\ plane.iteration_count = 0
    /\ ret > 0
    /\ plane.tpool # NULL
    /\ plane.num_threads >= 2
    /\ Len(hist) = 1 /\ hist[1].op = "recenter"
    /\ plane.center \notin Centers

\* the contexts on the pool's todo list
ContextsQueued == Chain(first, elem_next, MaxJobs + 1)

\* C27: a multi-threaded batch replaces the pool only when there is none
\* or it has fewer workers than num_threads, and then stops the old one
\* and makes one of exactly num_threads workers; otherwise, as after
\* threads_less, the pool is kept.  In the batch the pool has at least
\* num_threads workers and exactly num_threads contexts are submitted.
\* Nothing else touches the pool.
C27_PoolReplacedOnlyWhenTooSmall ==
    [][/\ (ipc = "idle" /\ ipc' = "batch") =>
             /\ (pool_log' # pool_log)
                    <=> (plane.tpool = NULL \/ plane.tpool < plane.num_threads)
             /\ (pool_log' # pool_log) =>
                    /\ plane'.tpool = plane.num_threads
                    /\ pool_log' = pool_log
                          \o (IF plane.tpool # NULL
                              THEN <<[op |-> "stop", size |-> plane.tpool]>>
                              ELSE <<>>)
                          \o <<[op |-> "new", size |-> plane.num_threads]>>
             /\ (pool_log' = pool_log) => plane'.tpool = plane.tpool
             /\ plane'.tpool >= plane.num_threads
             /\ plane'.num_threads = plane.num_threads
             /\ ContextsQueued' = [i \in 1..plane.num_threads |-> i]
       /\ ~(ipc = "idle" /\ ipc' = "batch") =>
             /\ plane'.tpool = plane.tpool
             /\ pool_log' = pool_log]_vars

\* a batch of two threads runs on the pool of three workers that replaced
\* a pool of two
C27_Witness ==
    /\ ipc = "batch"
    /\ plane.num_threads = 2
    /\ plane.tpool = 3
    /\ pool_log = <<[op |-> "new", size |-> 2], [op |-> "stop", size |-> 2],
                    [op |-> "new", size |-> 3]>>

(* ------------------- claims on sequences of view operations ----------- *)

\* the points of the window of state st, and its live list
PointsOf(st) ==
    [i \in 0..(st.plane.win_width * st.plane.win_height - 1) |->
        st.all_points[i]]

LiveOf(st) ==
    [k \in 0..(st.plane.not_escaped - 1) |-> st.points_not_escaped[k]]

\* every operation so far was op
OnlyOp(h, op) == \A k \in 1..Len(h) : h[k].op = op

\* C21: a reset with the arguments of the last reset, also after iterate
\* calls and also repeated, leaves every point, the live list and every
\* counter as the first reset left them, with iteration_count, escaped and
\* unchanged zero.
C21_ResetIsIdempotent ==
    [][(hist' # hist /\ OnlyOp(hist', "reset")) =>
          /\ PointsOf(Cur)' = PointsOf(base)
          /\ LiveOf(Cur)' = LiveOf(base)
          /\ plane' = base.plane
          /\ plane'.iteration_count = 0
          /\ plane'.escaped = 0
          /\ plane'.unchanged = 0]_vars

\* a second reset with the same arguments has just returned, and an
\* iterate call before it had made points escape
C21_Witness ==
    /\ Len(hist) = 2 /\ OnlyOp(hist, "reset")
    /\ plane.iteration_count = 0
    /\ nsteps > 0 /\ ret > 0
    /\ \E i \in DOMAIN all_points : all_points[i].trapped

\* C22: from the Mandelbrot variant, two calls of
\* coordinate_plane_next_function bring function index, centre, seed and
\* both resolutions back to what they were.
C22_SwitchTwiceRestoresTheView ==
    [][(hist' = <<Did("next_function"), Did("next_function")>>
        /\ base.plane.pfuncs_idx = pfuncs_mandlebrot_idx) =>
          /\ plane'.pfuncs_idx = base.plane.pfuncs_idx
          /\ plane'.center = base.plane.center
          /\ plane'.seed = base.plane.seed
          /\ plane'.resolution_x = base.plane.resolution_x
          /\ plane'.resolution_y = base.plane.resolution_y]_vars

\* Mandelbrot -> Julia -> Mandelbrot has been done on a plane whose centre
\* and seed differ
C22_Witness ==
    /\ hist = <<Did("next_function"), Did("next_function")>>
    /\ base.plane.pfuncs_idx = pfuncs_mandlebrot_idx
    /\ plane.pfuncs_idx = pfuncs_mandlebrot_idx
    /\ base.plane.center # base.plane.seed

\* C23: pan_left then pan_right, and pan_up then pan_down, give back the
\* centre exactly and leave resolution, function index and seed alone.
C23_PanBackRestoresTheCentre ==
    [][(hist' \in {<<Did("pan_left"), Did("pan_right")>>,
                   <<Did("pan_up"), Did("pan_down")>>}) =>
          /\ plane'.center = base.plane.center
          /\ plane'.resolution_x = base.plane.resolution_x
          /\ plane'.resolution_y = base.plane.resolution_y
          /\ plane'.pfuncs_idx = base.plane.pfuncs_idx
          /\ plane'.seed = base.plane.seed]_vars

\* C24: zoom_in then zoom_out gives back both resolutions exactly and
\* leaves the centre alone.
C24_ZoomBackRestoresTheResolution ==
    [][(hist' = <<Did("zoom_in"), Did("zoom_out")>>) =>
          /\ plane'.resolution_x = base.plane.resolution_x
          /\ plane'.resolution_y = base.plane.resolution_y
          /\ plane'.center = base.plane.center]_vars

(* --------------------- claims on the colouring pass ------------------- *)

\* the lines of line context i
LinesOf(b, i) ==
    b.contexts[i].first_y..(b.contexts[i].first_y + b.contexts[i].lines - 1)

\* the lines of the contexts whose basic_thread_pool_add failed
LinesRejected(b) == UNION {LinesOf(b, i) : i \in b.rejected}

\* every pixel outside the rejected lines holds the packed palette colour
\* of its point's escaped count
Coloured ==
    \A k \in DOMAIN buf.pixels :
        (k \div buf.width) \notin LinesRejected(buf)
            => buf.pixels[k] = PixelColour(k % buf.width, k \div buf.width)

C30_GrowKeepsOldAndPaintsNew ==
    [][buf' # buf =>
         LET old == IF buf.alive THEN buf.palette ELSE <<>>
             new == buf'.palette
             K == buf'.grew.prefix_black
         IN  /\ ArrayLen(new) = ArrayLen(old) + buf'.grew.amount
             /\ \A i \in DOMAIN new :
                    new[i] = IF i < ArrayLen(old) THEN old[i]
                             ELSE IF i < K THEN Black
                             ELSE long_tail_gradiant(i)
             /\ ~buf'.palette_oob
             /\ ArrayLen(old) = 0 =>
                    \A i \in 0..(K - 1) : i \in DOMAIN new /\ new[i] = Black]_vars

(* ------------------------ claims on the frame loop -------------------- *)

\* floor(it_per_frame * high_threshold / measured), and at least 1
StatedPerFrame(it_per_frame, diff) ==
    IF (it_per_frame * usec_per_frame_high_threshold) \div diff < 1 THEN 1
    ELSE (it_per_frame * usec_per_frame_high_threshold) \div diff

\* one below StatedPerFrame, and at least 1
StatedPerFrameLessOne(it_per_frame, diff) ==
    IF StatedPerFrame(it_per_frame, diff) = 1 THEN 1
    ELSE StatedPerFrame(it_per_frame, diff) - 1

\* what holds of a pass of the loop whatever a slow frame does: it_per_frame
\* is never 0, a frame faster than the low threshold adds 1, and a frame
\* that is neither faster than the low threshold nor a slow frame with
\* it_per_frame > 1 leaves it alone
FrameRateStep(slow(_, _, _)) ==
    loop.ui = "gui" =>
        /\ loop'.it_per_frame >= 1
        /\ IF loop'.diff < usec_per_frame_low_threshold
           THEN loop'.it_per_frame = loop.it_per_frame + 1
           ELSE IF loop'.diff > usec_per_frame_high_threshold
                   /\ loop.it_per_frame > 1
           THEN /\ loop'.it_per_frame < loop.it_per_frame
                /\ slow(loop.it_per_frame, loop'.diff, loop'.it_per_frame)
           ELSE loop'.it_per_frame = loop.it_per_frame

\* a slow frame as stated: one less below 10, else the floored product
SlowAsStated(it, diff, new) ==
    new = IF it < 10 THEN it - 1 ELSE StatedPerFrame(it, diff)

\* a slow frame as computed: one less below 10, else the floored product
\* or one less than it, since ht / diff is rounded before it is multiplied
SlowAsComputed(it, diff, new) ==
    IF it < 10 THEN new = it - 1
    ELSE new \in {StatedPerFrame(it, diff), StatedPerFrameLessOne(it, diff)}

C34_FrameLoopsEnd == <>FrameEnded

(* ------------------- claims on the plane's arguments ------------------ *)

\* the step is a call of coordinate_plane_reset: by coordinate_plane_new,
\* or by a change of view
ResetCalled == (ipc = "none" /\ ipc' # "none") \/ nops' # nops

\* C32: coordinate_plane_reset, called by new or by a change of view with
\* a resolution_x or resolution_y that is <= 0 or NaN, ends the process
\* before any point is initialised (the points, the live list and the
\* counters are as they were), and a plane that goes on living has both
\* resolutions positive.
C32_BadResolutionEndsTheProcess ==
    /\ [](plane.alive =>
              /\ plane.resolution_x # LdNaN /\ plane.resolution_x > 0
              /\ plane.resolution_y # LdNaN /\ plane.resolution_y > 0)
    /\ [][ResetCalled =>
            IF \/ plane'.resolution_x = LdNaN \/ plane'.resolution_x <= 0
               \/ plane'.resolution_y = LdNaN \/ plane'.resolution_y <= 0
            THEN /\ ~plane'.alive
                 /\ UNCHANGED <<all_points, scratch, points_not_escaped>>
                 /\ plane.alive =>
                        /\ plane'.iteration_count = plane.iteration_count
                        /\ plane'.escaped = plane.escaped
                        /\ plane'.not_escaped = plane.not_escaped
                        /\ plane'.trapped = plane.trapped
            ELSE plane'.alive]_vars

\* a change of view of a living plane has asked for a resolution of 0
C32_Witness ==
    /\ nops > 0
    /\ ~plane.alive
    /\ plane.resolution_x = 0

(* ------------------- claims on a batch in two parts ------------------- *)

\* the two calls have returned, and halt_after was not reached
SplitDone ==
    /\ loop.ui = "split" /\ loop.left = <<>>
    /\ plane.halt_after = 0 \/ loop.a + loop.b <= plane.halt_after

\* every point's z and escaped, the live list and the escaped counter are
\* those of the single call
SplitSamePoints ==
    /\ \A k \in 0..((plane.win_width * plane.win_height) - 1) :
           /\ all_points[k].z = ref.all_points[k].z
           /\ all_points[k].escaped = ref.all_points[k].escaped
    /\ plane.not_escaped = ref.plane.not_escaped
    /\ \A k \in 0..(plane.not_escaped - 1) :
           points_not_escaped[k] = ref.points_not_escaped[k]
    /\ plane.escaped = ref.plane.escaped

C35_EveryCallReturns == (ipc \in {"batch", "merge"}) ~> (ipc = "idle")

\* the adds of the batch in hand all succeeded
NoAddFailed == loop.rejected = {}

\* a call of coordinate_plane_iterate whose adds all succeed eventually
\* returns, for every thread count
CallReturnsWhenAddsSucceed ==
    (ipc \in {"batch", "merge"} /\ NoAddFailed) ~> (ipc = "idle")

(* ---------------------- claims on the thread count -------------------- *)

\* the contexts a call of coordinate_plane_iterate sets up and reads: one
\* per thread, and contexts[0] when it runs on the calling thread
ContextsUsed ==
    IF plane.num_threads < 2 THEN {0} ELSE 0..(plane.num_threads - 1)

\* C36: after any sequence of coordinate_plane_new (with any num_threads,
\* 0 included), threads_more and threads_less the contexts array has at
\* least max(1, num_threads) entries, so that a batch sets up and reads
\* no context beyond its end, and threads_less never takes num_threads
\* below 1.
C36_ContextsCoverTheThreads ==
    /\ [](/\ DOMAIN contexts = 0..(plane.contexts_len - 1)
          /\ plane.contexts_len >= 1
          /\ plane.contexts_len >= plane.num_threads
          /\ ContextsUsed \subseteq DOMAIN contexts)
    /\ [][plane'.num_threads < plane.num_threads
             => plane'.num_threads >= 1]_vars

\* a plane made with num_threads = 0 has a batch under way on two
\* threads after threads_more grew the array to three contexts and
\* threads_less took one thread away
C36_Witness ==
    /\ base.plane.num_threads = 0
    /\ ipc = "batch"
    /\ plane.num_threads = MaxPoolThreads - 1
    /\ plane.contexts_len = MaxPoolThreads
    /\ \A t \in 0..(plane.num_threads - 1) : contexts[t].pc # "idle"

(* ------------------ claims on the queue at a colouring pass ----------- *)

\* pixel_buffer_update goes into its parallel branch: its contexts are
\* added to the pool
ParallelPassEntered == ipc = "idle" /\ ipc' = "pixels"

\* C37: whenever pixel_buffer_update is entered with a pool of two or
\* more workers the pool's queue of unstarted jobs is empty, after any
\* sequence of iterate calls (those that find no work included) and
\* earlier colouring passes: the assertion at the start of the parallel
\* branch holds.
C37_QueueEmptyAtThePass ==
    [][ParallelPassEntered =>
          /\ plane.tpool >= 2
          /\ basic_thread_pool_queue_size = 0]_vars

\* a plane that has been iterated and coloured before is in its next
\* parallel pass, none of whose jobs has started
C37_Witness ==
    /\ ipc = "pixels"
    /\ plane.tpool >= 2
    /\ plane.iteration_count > 0
    /\ \A k \in DOMAIN buf.pixels : buf.pixels[k] # Junk
    /\ \A i \in 0..(buf.num_contexts - 1) : buf.contexts[i].pc = "queued"
    /\ basic_thread_pool_queue_size = buf.num_contexts

(* ------------------ claims on the stores of grow_palette -------------- *)

\* the entries grow_palette added at its last call
GrewEntries == buf.grew.keep..((buf.grew.keep + buf.grew.amount) - 1)

\* the indices grow_palette stored at at its last call
GrewStores ==
    grow_palette_stores(buf.grew.keep, buf.grew.prefix_black, buf.grew.amount)

\* C38: grow_palette stores only at the indices from the old length up to
\* the new length, whatever the old length, the amount and skip_rounds,
\* skip_rounds above the new length included.
C38_GrowStoresOnlyNewEntries == buf.alive => GrewStores \subseteq GrewEntries

\* with prefix_black no larger than the new length the stores are exactly
\* the entries added
GrowStoresWithinWhenPrefixFits ==
    (buf.alive /\ buf.grew.prefix_black <= buf.grew.keep + buf.grew.amount)
        => GrewStores = GrewEntries

\* palette_oob is set exactly when a store went past the new length
OobIsAStorePastTheEnd ==
    buf.alive => (buf.palette_oob <=> ~(GrewStores \subseteq GrewEntries))

====
